---- MODULE Spec2Model ----
(***************************************************************************)
(* Investment-advisor agent pipeline: the JSON extraction applied to every *)
(* model reply, the orchestrator variants (workflow.py, workflow1.py,      *)
(* main.py, main1.py, main_api.py) and their feedback loops.               *)
(*                                                                         *)
(* A text is a sequence of tokens.  "{" and "}" are the brace characters   *)
(* that str.find / str.rfind look for; a key token stands for the          *)
(* characters of `"key":`, a scalar token for the characters of a string   *)
(* or number literal, "," for the comma, "null" for the literal null and   *)
(* "p" for any run of characters that is not JSON (prose).                 *)
(***************************************************************************)
EXTENDS Integers, Sequences, FiniteSets, TLC

VARIABLES
    response_string,   \* ExtractSpec: the reply text handed to the extraction
    extract_fn,        \* ExtractSpec: which extraction routine is applied
    extracted,         \* ExtractSpec: its outcome, or Pending before the call
    run,               \* the orchestrator run in progress (locals of the function)
    run2,              \* PairSpec: a second run of the same orchestrator
    fb,                \* the last process_feedback call and what came of it
    recommendations,   \* main_api.py: the module-level dict of stored results
    http,              \* main_api.py: the response to the last request
    now,               \* main_api.py: int(loop.time()), in seconds
    nreq,              \* requests taken so far (goals and feedback)
    client,            \* the AlphaVantageClient of the FinancialDataTool in use
    clock,             \* datetime.now(), in hours
    call               \* the last call on the tool and what came of it

evars == <<response_string, extract_fn, extracted>>
pvars == <<run, run2, fb, recommendations, http, now, nreq>>
cvars == <<client, clock, call>>
vars == <<response_string, extract_fn, extracted, run, run2, fb,
          recommendations, http, now, nreq, client, clock, call>>

\* Bind(x, F) is F(x) with x evaluated once: the model's way of writing an
\* assignment to a local followed by the code that reads it.
Bind(x, F(_)) == CHOOSE y \in {F(v) : v \in {x}} : TRUE

----------------------------------------------------------------------------
(* JSON values.  A dict is an insertion-ordered sequence of key/value      *)
(* pairs with distinct keys, as a Python dict is.                          *)

LB == "{"
RB == "}"
LSQ == "["
RSQ == "]"
COMMA == ","
NULLTOK == "null"
QUOTE == "\""
PROSE == "p"

Keys == {"k", "goal_type", "risk_tolerance", "investment_horizon", "products",
         "name", "description", "product_votes", "feedback_analysis",
         "risk_adjustment", "preference_changes", "strategy_adjustments",
         "error", "market_analysis", "financial_analysis", "current_price",
         "performance", "votes", "agent", "timestamp"}
Scalars == {"v", "w", "low", "medium", "high", "short-term", "medium-term",
            "long-term", "retirement", "VTI (Vanguard Total Stock Market)",
            "Unable to analyze feedback properly.", "no change", "lower",
            "Error analyzing feedback", "JSONDecodeError", "$257.83",
            "+18.2% (1yr)", "simulated market analysis", "InvestmentSpecialist",
            "RiskSpecialist", "GoalSpecialist", "now"}

JNull == [t |-> "null"]
\* A string holding a text (a model reply kept as a dict value).
JText(x) == [t |-> "text", x |-> x]
JStr(s) == [t |-> "s", s |-> s]
JObj(members) == [t |-> "o", m |-> members]
JArr(items) == [t |-> "a", a |-> items]
EmptyObj == JObj(<<>>)

HasKey(members, k) == \E i \in 1..Len(members) : members[i].k = k

\* d[k] = v on a Python dict: replace in place, or append a new key.
DictSet(members, k, v) ==
    IF HasKey(members, k)
    THEN [i \in 1..Len(members) |->
            IF members[i].k = k THEN [k |-> k, v |-> v] ELSE members[i]]
    ELSE Append(members, [k |-> k, v |-> v])

\* d.get(k, default)
DictGet(members, k, default) ==
    IF HasKey(members, k)
    THEN LET i == CHOOSE j \in 1..Len(members) : members[j].k = k
         IN members[i].v
    ELSE default

ParseFail == [ok |-> FALSE, val |-> JNull, next |-> 0]

RECURSIVE ParseValue(_, _)
RECURSIVE ParseMembers(_, _, _)
RECURSIVE ParseItems(_, _, _)

\* The items of an array from position i on (a value is expected at i).
ParseItems(s, i, acc) ==
    Bind(ParseValue(s, i), LAMBDA r :
        IF ~r.ok \/ r.next > Len(s) THEN ParseFail
        ELSE IF s[r.next] = RSQ
        THEN [ok |-> TRUE, val |-> JArr(Append(acc, r.val)), next |-> r.next + 1]
        ELSE IF s[r.next] = COMMA
        THEN ParseItems(s, r.next + 1, Append(acc, r.val))
        ELSE ParseFail)

\* The members of an object from position i on (a key is expected at i);
\* acc holds the members read so far.
ParseMembers(s, i, acc) ==
    IF i + 1 > Len(s) \/ s[i] \notin Keys THEN ParseFail
    ELSE Bind(ParseValue(s, i + 1), LAMBDA r :
            IF ~r.ok \/ r.next > Len(s) THEN ParseFail
            ELSE IF s[r.next] = RB
            THEN [ok |-> TRUE, val |-> JObj(DictSet(acc, s[i], r.val)),
                  next |-> r.next + 1]
            ELSE IF s[r.next] = COMMA
            THEN ParseMembers(s, r.next + 1, DictSet(acc, s[i], r.val))
            ELSE ParseFail)

\* One JSON value starting at position i (1-based); next is the position
\* after it.
ParseValue(s, i) ==
    IF i > Len(s) THEN ParseFail
    ELSE IF s[i] \in Scalars THEN [ok |-> TRUE, val |-> JStr(s[i]), next |-> i + 1]
    ELSE IF s[i] = NULLTOK THEN [ok |-> TRUE, val |-> JNull, next |-> i + 1]
    ELSE IF s[i] = QUOTE
    THEN IF \E j \in (i + 1)..Len(s) : s[j] = QUOTE
         THEN LET j == CHOOSE j \in (i + 1)..Len(s) :
                          s[j] = QUOTE /\ \A h \in (i + 1)..(j - 1) : s[h] # QUOTE
              IN [ok |-> TRUE, val |-> JText(SubSeq(s, i + 1, j - 1)), next |-> j + 1]
         ELSE ParseFail
    ELSE IF s[i] = LB
    THEN IF i + 1 <= Len(s) /\ s[i + 1] = RB
         THEN [ok |-> TRUE, val |-> EmptyObj, next |-> i + 2]
         ELSE ParseMembers(s, i + 1, <<>>)
    ELSE IF s[i] = LSQ
    THEN IF i + 1 <= Len(s) /\ s[i + 1] = RSQ
         THEN [ok |-> TRUE, val |-> JArr(<<>>), next |-> i + 2]
         ELSE ParseItems(s, i + 1, <<>>)
    ELSE ParseFail

\* json.loads: the whole text must be one value; anything else raises
\* JSONDecodeError (ok = FALSE).
json_loads(s) ==
    Bind(ParseValue(s, 1), LAMBDA r :
        IF r.ok /\ r.next = Len(s) + 1
        THEN [ok |-> TRUE, val |-> r.val]
        ELSE [ok |-> FALSE, val |-> JNull])

RECURSIVE json_dumps(_)
RECURSIVE DumpMembers(_, _)
RECURSIVE DumpItems(_, _)

DumpItems(items, i) ==
    IF i > Len(items) THEN <<>>
    ELSE (IF i > 1 THEN <<COMMA>> ELSE <<>>)
         \o json_dumps(items[i]) \o DumpItems(items, i + 1)

DumpMembers(members, i) ==
    IF i > Len(members) THEN <<>>
    ELSE (IF i > 1 THEN <<COMMA>> ELSE <<>>)
         \o <<members[i].k>> \o json_dumps(members[i].v)
         \o DumpMembers(members, i + 1)

\* json.dumps
json_dumps(v) ==
    IF v.t = "null" THEN <<NULLTOK>>
    ELSE IF v.t = "s" THEN <<v.s>>
    ELSE IF v.t = "text" THEN <<QUOTE>> \o v.x \o <<QUOTE>>
    ELSE IF v.t = "a" THEN <<LSQ>> \o DumpItems(v.a, 1) \o <<RSQ>>
    ELSE <<LB>> \o DumpMembers(v.m, 1) \o <<RB>>

----------------------------------------------------------------------------
(* str.find, str.rfind and slicing, with Python's 0-based indices.         *)

\* s.find(c): the index of the first c, or -1.
PyFind(s, c) ==
    IF \E i \in 1..Len(s) : s[i] = c
    THEN (CHOOSE i \in 1..Len(s) : s[i] = c /\ \A j \in 1..(i - 1) : s[j] # c) - 1
    ELSE -1

\* A search for the closing brace that starts from the left.
PyFindInsteadOfRfind(s, c) == PyFind(s, c)

\* s.rfind(c): the index of the last c, or -1.
PyRfind(s, c) ==
    IF \E i \in 1..Len(s) : s[i] = c
    THEN (CHOOSE i \in 1..Len(s) : s[i] = c /\ \A j \in (i + 1)..Len(s) : s[j] # c) - 1
    ELSE -1

\* A slice that stops one position early.
PySliceDropsLast(s, a, b) ==
    IF b - 1 <= a \/ a < 0 THEN <<>> ELSE SubSeq(s, a + 1, b - 1)

\* s[a:b] for b >= 0; a negative a counts from the end.
PySlice(s, a, b) ==
    LET lo == IF a < 0 THEN (IF Len(s) + a < 0 THEN 0 ELSE Len(s) + a) ELSE a
        hi == IF b > Len(s) THEN Len(s) ELSE b
    IN IF hi <= lo THEN <<>> ELSE SubSeq(s, lo + 1, hi)

----------------------------------------------------------------------------
(* The extraction routines of the orchestrator variants.  An outcome is    *)
(* [kind, val]: "value" (val is what the caller receives), "error" (the    *)
(* except branch of the caller's try is taken) or "raise" (an exception    *)
(* leaves the routine).                                                    *)

Value(v) == [kind |-> "value", val |-> v, parsed |-> TRUE]
Fallback(v) == [kind |-> "value", val |-> v, parsed |-> FALSE]
ErrorOutcome == [kind |-> "error", val |-> JNull, parsed |-> FALSE]
RaiseOutcome == [kind |-> "raise", val |-> JNull, parsed |-> FALSE]

\* An extraction that hands back {} where the inline block takes its except
\* branch.
InlineExtractKeepsGoing(text) ==
    Bind(json_loads(PySlice(text, PyFind(text, LB), PyRfind(text, RB) + 1)),
         LAMBDA r : IF r.ok THEN Value(r.val) ELSE Fallback(EmptyObj))

\* workflow.py / main_api.py: the try block repeated after every model call;
\* both the ValueError of the else branch and json.loads' error reach the
\* except branch.
InlineExtract(text) ==
    LET json_start == PyFind(text, LB)
        json_end == PyRfind(text, RB) + 1
    IN IF json_start >= 0 /\ json_end > json_start
       THEN Bind(json_loads(PySlice(text, json_start, json_end)), LAMBDA r :
                IF r.ok THEN Value(r.val) ELSE ErrorOutcome)
       ELSE ErrorOutcome

\* An extraction that hands back {} where extract_json_response returns None.
extract_json_response_empty(resonse_string) ==
    Bind(json_loads(PySlice(resonse_string, PyFind(resonse_string, LB),
                            PyRfind(resonse_string, RB) + 1)),
         LAMBDA r : IF r.ok THEN Value(r.val) ELSE Fallback(EmptyObj))

\* main.py extract_json_response: the except branch returns None.
extract_json_response(resonse_string) ==
    LET json_start == PyFind(resonse_string, LB)
        json_end == PyRfind(resonse_string, RB) + 1
    IN IF json_start >= 0 /\ json_end > json_start
       THEN Bind(json_loads(PySlice(resonse_string, json_start, json_end)), LAMBDA r :
                IF r.ok THEN Value(r.val) ELSE Fallback(JNull))
       ELSE Fallback(JNull)

\* main1.py _wait_for_json_response, once the agent's last message is found:
\* both failure paths return {}.
wait_for_json_response(last_message) ==
    LET json_start == PyFind(last_message, LB)
        json_end == PyRfind(last_message, RB) + 1
    IN IF json_start >= 0 /\ json_end > json_start
       THEN Bind(json_loads(PySlice(last_message, json_start, json_end)), LAMBDA r :
                IF r.ok THEN Value(r.val) ELSE Fallback(EmptyObj))
       ELSE Fallback(EmptyObj)

\* workflow1.py process_investment_request: no guard and no try; the slice is
\* taken with whatever find and rfind returned and json.loads' error leaves
\* the function.
UnguardedExtract(text) ==
    LET json_start == PyFind(text, LB)
        json_end == PyRfind(text, RB) + 1
    IN Bind(json_loads(PySlice(text, json_start, json_end)), LAMBDA r :
            IF r.ok THEN Value(r.val) ELSE RaiseOutcome)

ExtractFns == {"InlineExtract", "extract_json_response",
               "wait_for_json_response", "UnguardedExtract"}

ApplyExtract(fn, text) ==
    CASE fn = "InlineExtract" -> InlineExtract(text)
      [] fn = "extract_json_response" -> extract_json_response(text)
      [] fn = "wait_for_json_response" -> wait_for_json_response(text)
      [] fn = "UnguardedExtract" -> UnguardedExtract(text)

----------------------------------------------------------------------------
(* The orchestrators.  A run is the record of the locals of                *)
(* process_investment_request / run_investment_advisor /                   *)
(* process_user_input / run_enhanced_investment_advisor, with pc the model *)
(* call it is about to make.  calls and parsed are history: the model      *)
(* calls made so far with their prompts, and the stages whose reply was    *)
(* parsed by json.loads.                                                   *)

Variants == {"workflow", "workflow1", "main", "main1", "main_api"}

Unset == [t |-> "unset"]

NoRequest == [risk_tolerance |-> 0, investment_horizon |-> 0]
NoId == [n |-> 0, t |-> 0]

\* main_api.py convert_risk_tolerance_to_text
convert_risk_tolerance_to_text(value) ==
    IF value = 1 THEN "low" ELSE IF value = 2 THEN "medium" ELSE "high"

\* A conversion for which ten years are still short-term.
convert_horizon_short_at_ten(years) ==
    IF years <= 10 THEN "short-term"
    ELSE IF years <= 20 THEN "medium-term" ELSE "long-term"

\* main_api.py convert_horizon_to_text
convert_horizon_to_text(years) ==
    IF years < 10 THEN "short-term"
    ELSE IF years <= 20 THEN "medium-term" ELSE "long-term"

NewRun(variant, has_key, request, rec_id) ==
    [variant |-> variant, has_key |-> has_key, request |-> request,
     rec_id |-> rec_id, pc |-> "GoalExtraction",
     extracted_goal |-> Unset, structured_goal |-> Unset,
     financial_insights |-> <<>>, investment_options |-> Unset,
     investment_votes |-> Unset, risk_votes |-> Unset, goal_votes |-> Unset,
     strategy |-> Unset, enhanced_strategy |-> Unset, presentation |-> <<>>,
     calls |-> <<>>, parsed |-> {}]

IdleRun(variant, has_key) ==
    [NewRun(variant, has_key, NoRequest, NoId) EXCEPT !.pc = "idle"]

ExtractStages == {"GoalExtraction", "Retrieval", "Investment", "Risk", "Goal",
                  "Coordination"}
Specialists == {"Investment", "Risk", "Goal"}

StageField(stage) ==
    CASE stage = "GoalExtraction" -> "structured_goal"
      [] stage = "Retrieval" -> "investment_options"
      [] stage = "Investment" -> "investment_votes"
      [] stage = "Risk" -> "risk_votes"
      [] stage = "Goal" -> "goal_votes"
      [] stage = "Coordination" -> "strategy"

\* An input of a stage: the text of the model's reply and, for main1.py,
\* whether group_chat.messages lists a message of the agent at all.
Reply(text) == [text |-> text, listed |-> TRUE]

\* The extraction each variant applies to a stage's reply.
StageExtract(r, inp) ==
    CASE r.variant \in {"workflow", "main_api"} -> InlineExtract(inp.text)
      [] r.variant = "workflow1" -> UnguardedExtract(inp.text)
      [] r.variant = "main" -> extract_json_response(inp.text)
      [] r.variant = "main1" ->
            IF inp.listed THEN wait_for_json_response(inp.text) ELSE RaiseOutcome

----------------------------------------------------------------------------
(* Prompts: the f-string of each call, as the fixed text (head) and the    *)
(* interpolated pieces.                                                    *)

Prompt(head, goal, options, votes, strategy, insights) ==
    [head |-> head, goal |-> goal, options |-> options, votes |-> votes,
     strategy |-> strategy, insights |-> insights]

\* str(x) of a value interpolated into an f-string.
Str(v) == json_dumps(v)

GoalPrompt(r) ==
    IF r.variant = "main_api"
    THEN Prompt("enhanced_input", <<>>, <<>>, <<>>, <<>>,
                <<convert_risk_tolerance_to_text(r.request.risk_tolerance)>>)
    ELSE Prompt("user_input", <<>>, <<>>, <<>>, <<>>, <<>>)

MarketDataPrompt(r) ==
    Prompt("market data", Str(DictGet(r.structured_goal.m, "goal_type", JStr("general investing")))
                          \o Str(DictGet(r.structured_goal.m, "investment_horizon", JStr("medium-term")))
                          \o Str(DictGet(r.structured_goal.m, "risk_tolerance", JStr("medium"))),
           <<>>, <<>>, <<>>, <<>>)

RetrievalPrompt(r) ==
    Prompt("what investment options", json_dumps(r.structured_goal),
           <<>>, <<>>, <<>>, <<>>)

SpecialistHead(stage) ==
    CASE stage = "Investment" -> "returns and diversification"
      [] stage = "Risk" -> "risk alignment"
      [] stage = "Goal" -> "goal alignment"

\* A specialist prompt that also quotes the investment votes.
SpecialistPromptLeaky(r, stage) ==
    Prompt(SpecialistHead(stage), json_dumps(r.structured_goal),
           json_dumps(r.investment_options),
           IF r.investment_votes = Unset THEN <<>>
           ELSE <<json_dumps(r.investment_votes)>>,
           <<>>, r.financial_insights)

SpecialistPrompt(r, stage) ==
    Prompt(SpecialistHead(stage), json_dumps(r.structured_goal),
           json_dumps(r.investment_options), <<>>, <<>>, r.financial_insights)

\* workflow.py: the votes travel inside voting_record (the timestamp is
\* str(datetime.now()), written "now" here).
voting_record(r) ==
    JObj(<< [k |-> "votes", v |-> JArr(<<
                JObj(<<[k |-> "agent", v |-> JStr("InvestmentSpecialist")],
                       [k |-> "votes", v |-> r.investment_votes]>>),
                JObj(<<[k |-> "agent", v |-> JStr("RiskSpecialist")],
                       [k |-> "votes", v |-> r.risk_votes]>>),
                JObj(<<[k |-> "agent", v |-> JStr("GoalSpecialist")],
                       [k |-> "votes", v |-> r.goal_votes]>>) >>)],
            [k |-> "timestamp", v |-> JStr("now")] >>)

\* A coordinator prompt without the goal specialist's votes.
CoordinatorPromptTwoVotes(r) ==
    Prompt("final investment strategy", json_dumps(r.structured_goal),
           json_dumps(r.investment_options),
           <<json_dumps(r.investment_votes), json_dumps(r.risk_votes)>>,
           <<>>, r.financial_insights)

CoordinatorPrompt(r) ==
    Prompt("final investment strategy", json_dumps(r.structured_goal),
           json_dumps(r.investment_options),
           IF r.variant = "workflow"
           THEN <<json_dumps(voting_record(r))>>
           ELSE <<json_dumps(r.investment_votes), json_dumps(r.risk_votes),
                  json_dumps(r.goal_votes)>>,
           <<>>, r.financial_insights)

EnhancementPrompt(r) ==
    Prompt("enhance the strategy", Str(DictGet(r.structured_goal.m, "risk_tolerance", JStr("medium"))),
           <<>>, <<>>, json_dumps(r.strategy), <<>>)

PresentationPrompt(r) ==
    Prompt("format this strategy", <<>>, <<>>, <<>>,
           json_dumps(IF r.variant = "main_api" THEN r.enhanced_strategy
                      ELSE r.strategy),
           <<>>)

PromptOf(r, stage) ==
    CASE stage = "GoalExtraction" -> GoalPrompt(r)
      [] stage = "MarketData" -> MarketDataPrompt(r)
      [] stage = "Retrieval" -> RetrievalPrompt(r)
      [] stage \in Specialists -> SpecialistPrompt(r, stage)
      [] stage = "Coordination" -> CoordinatorPrompt(r)
      [] stage = "Enhancement" -> EnhancementPrompt(r)
      [] stage = "Presentation" -> PresentationPrompt(r)

\* user_proxy.initiate_chat(agent, message=...) / user_proxy.send(...)
ModelCall(r, stage) ==
    [r EXCEPT !.calls = Append(@, [role |-> stage, prompt |-> PromptOf(r, stage)])]

----------------------------------------------------------------------------
(* The stages.  Each operator is one model call together with the code     *)
(* that follows it up to the next model call.                              *)

\* The model call of an extracting stage, the extraction of its reply and
\* what the variant does with the outcome: store and go on, return None
\* ("failed"), or let the exception leave the function ("raised").
AfterReply(r, stage, inp, next) ==
    Bind(ModelCall(r, stage), LAMBDA called :
    Bind(StageExtract(r, inp), LAMBDA e :
        CASE e.kind = "value" ->
                [called EXCEPT ![StageField(stage)] = e.val,
                               !.parsed = IF e.parsed THEN @ \cup {stage} ELSE @,
                               !.pc = next]
          [] e.kind = "error" -> [called EXCEPT !.pc = "failed"]
          [] e.kind = "raise" -> [called EXCEPT !.pc = "raised"]))

\* An override of risk_tolerance alone.
OverrideGoalRiskOnly(goal, request) ==
    JObj(DictSet(goal.m, "risk_tolerance",
                 JStr(convert_risk_tolerance_to_text(request.risk_tolerance))))

\* main_api.py: structured_goal["risk_tolerance"] = risk_text;
\* structured_goal["investment_horizon"] = horizon_text
OverrideGoal(goal, request) ==
    JObj(DictSet(DictSet(goal.m, "risk_tolerance",
                         JStr(convert_risk_tolerance_to_text(request.risk_tolerance))),
                 "investment_horizon",
                 JStr(convert_horizon_to_text(request.investment_horizon))))

\* main_api.py financial_insights over get_market_data_for_strategy's
\* simulated branch (no STOCK_API_KEY): no model call.
SimulatedInsights(goal) ==
    <<"simulated">>
    \o Str(DictGet(goal.m, "risk_tolerance", JStr("medium")))
    \o Str(DictGet(goal.m, "investment_horizon", JStr("medium-term")))
    \o Str(DictGet(goal.m, "goal_type", JStr("general investing")))
    \o <<"Risk tolerance:">> \o Str(DictGet(goal.m, "risk_tolerance", JStr("medium")))
    \o <<"Symbols analyzed:", "VTI, VXUS, BND">>

\* The same over the branch with a key: the analysis is the financial
\* agent's last message, taken as it is.
KeyedInsights(goal, reply) ==
    <<"analysis">> \o reply
    \o <<"Risk tolerance:">> \o Str(DictGet(goal.m, "risk_tolerance", JStr("medium")))
    \o <<"Symbols analyzed:", "symbols">>

GoalExtractionStage(r, inp) ==
    Bind(AfterReply(r, "GoalExtraction", inp, "Retrieval"), LAMBDA a :
        IF a.pc # "Retrieval" THEN a
        ELSE IF r.variant # "main_api"
        THEN [a EXCEPT !.extracted_goal = a.structured_goal]
        ELSE Bind(OverrideGoal(a.structured_goal, r.request), LAMBDA goal :
                [a EXCEPT !.extracted_goal = a.structured_goal,
                          !.structured_goal = goal,
                          !.financial_insights =
                              IF r.has_key THEN @ ELSE SimulatedInsights(goal),
                          !.pc = IF r.has_key THEN "MarketData" ELSE @]))

\* get_market_data_for_strategy with a key: tools_executor.initiate_chat
\* (financial_agent, max_turns=2), no extraction of the reply.
MarketDataStage(r, inp) ==
    [ModelCall(r, "MarketData") EXCEPT
        !.financial_insights = KeyedInsights(r.structured_goal, inp.text),
        !.pc = "Retrieval"]

RetrievalStage(r, inp) == AfterReply(r, "Retrieval", inp, "Investment")
InvestmentStage(r, inp) == AfterReply(r, "Investment", inp, "Risk")
RiskStage(r, inp) == AfterReply(r, "Risk", inp, "Goal")
GoalStage(r, inp) == AfterReply(r, "Goal", inp, "Coordination")

\* enhance_investment_recommendations walks strategy["products"] calling
\* product.get("name", "") and testing "(" in name: anything but a list of
\* dicts whose name is not None raises (the empty dict iterates nothing).
ProductsRaise(strategy) ==
    LET ps == DictGet(strategy.m, "products", JArr(<<>>)) IN
    IF ps.t = "a"
    THEN \E i \in 1..Len(ps.a) :
            \/ ps.a[i].t # "o"
            \/ DictGet(ps.a[i].m, "name", JStr("")).t = "null"
    ELSE ps # EmptyObj

IsListedSymbol(name) == name = JStr("VTI (Vanguard Total Stock Market)")

\* The simulated branch: product["current_price"], product["performance"]
\* for the products whose symbol is VTI, VXUS or BND.
AnnotateProduct(product) ==
    IF IsListedSymbol(DictGet(product.m, "name", JStr("")))
    THEN JObj(DictSet(DictSet(product.m, "current_price", JStr("$257.83")),
                      "performance", JStr("+18.2% (1yr)")))
    ELSE product

AnnotateProducts(strategy) ==
    IF HasKey(strategy.m, "products")
    THEN LET ps == DictGet(strategy.m, "products", JArr(<<>>)) IN
         IF ps.t = "a"
         THEN JObj(DictSet(strategy.m, "products",
                           JArr([i \in 1..Len(ps.a) |-> AnnotateProduct(ps.a[i])])))
         ELSE strategy
    ELSE strategy

\* enhance_investment_recommendations without STOCK_API_KEY.
EnhanceSimulated(strategy) ==
    JObj(DictSet(AnnotateProducts(strategy).m, "market_analysis",
                 JStr("simulated market analysis")))

\* enhance_investment_recommendations with a key, after the agent's reply.
EnhanceFromReply(strategy, enhanced_message) ==
    LET json_start == PyFind(enhanced_message, LB)
        json_end == PyRfind(enhanced_message, RB) + 1
        with_analysis == DictSet(strategy.m, "financial_analysis",
                                 JText(enhanced_message))
    IN IF json_start >= 0 /\ json_end > json_start
       THEN Bind(json_loads(PySlice(enhanced_message, json_start, json_end)), LAMBDA l :
                IF l.ok THEN Value(l.val)
                ELSE Fallback(JObj(DictSet(with_analysis, "error",
                                           JStr("JSONDecodeError")))))
       ELSE Fallback(JObj(with_analysis))

CoordinationStage(r, inp) ==
    Bind(AfterReply(r, "Coordination", inp,
                    IF r.variant = "main1" THEN "done" ELSE "Presentation"),
         LAMBDA a :
            IF a.pc \in {"failed", "raised"} \/ r.variant # "main_api" THEN a
            ELSE IF r.has_key THEN [a EXCEPT !.pc = "Enhancement"]
            ELSE IF ProductsRaise(a.strategy) THEN [a EXCEPT !.pc = "failed"]
            ELSE [a EXCEPT !.strategy = AnnotateProducts(@),
                           !.enhanced_strategy = EnhanceSimulated(a.strategy)])

EnhancementStage(r, inp) ==
    IF ProductsRaise(r.strategy) THEN [r EXCEPT !.pc = "failed"]
    ELSE Bind(EnhanceFromReply(r.strategy, inp.text), LAMBDA e :
            [ModelCall(r, "Enhancement") EXCEPT
                !.enhanced_strategy = e.val,
                !.parsed = IF e.parsed THEN @ \cup {"Enhancement"} ELSE @,
                !.pc = "Presentation"])

PresentationStage(r, inp) ==
    [ModelCall(r, "Presentation") EXCEPT !.presentation = inp.text, !.pc = "done"]

----------------------------------------------------------------------------
(* The feedback loop.                                                      *)

\* The dict literal returned when the feedback reply cannot be extracted
\* (workflow.py, workflow1.py).
FeedbackDefault ==
    JObj(<< [k |-> "feedback_analysis", v |-> JStr("Unable to analyze feedback properly.")],
            [k |-> "risk_adjustment", v |-> JStr("no change")],
            [k |-> "preference_changes", v |-> JArr(<<>>)],
            [k |-> "strategy_adjustments", v |-> JArr(<<>>)] >>)

\* main_api.py: the same literal with an "error" entry in front.
ApiFeedbackDefault ==
    JObj(<<[k |-> "error", v |-> JStr("Error analyzing feedback")]>> \o FeedbackDefault.m)

FeedbackPrompt(structured_goal, strategy, market_data) ==
    Prompt("process this feedback", json_dumps(structured_goal), <<>>, <<>>,
           json_dumps(strategy), market_data)

\* A process_feedback whose except branch returns None.
workflow_process_feedback_none(inp) ==
    Bind(InlineExtract(inp.text), LAMBDA e :
        IF e.kind = "value" THEN e ELSE Fallback(JNull))

\* workflow.py process_feedback: the except branch returns the default.
workflow_process_feedback(inp) ==
    Bind(InlineExtract(inp.text), LAMBDA e :
        IF e.kind = "value" THEN e ELSE Fallback(FeedbackDefault))

\* workflow1.py process_feedback: the else branch returns the default, and
\* json.loads is called outside any try.
workflow1_process_feedback(inp) ==
    LET json_start == PyFind(inp.text, LB)
        json_end == PyRfind(inp.text, RB) + 1
    IN IF json_start >= 0 /\ json_end > json_start
       THEN Bind(json_loads(PySlice(inp.text, json_start, json_end)), LAMBDA l :
                IF l.ok THEN Value(l.val) ELSE RaiseOutcome)
       ELSE Fallback(FeedbackDefault)

\* main.py process_feedback: whatever extract_json_response returns.
main_process_feedback(inp) == extract_json_response(inp.text)

\* main1.py InvestmentStrategyAdvisor.process_feedback
main1_process_feedback(inp) ==
    IF inp.listed THEN wait_for_json_response(inp.text) ELSE RaiseOutcome

\* main_api.py process_feedback, for an id that is stored.
api_process_feedback(inp) ==
    Bind(InlineExtract(inp.text), LAMBDA e :
        IF e.kind = "value" THEN e ELSE Fallback(ApiFeedbackDefault))

NoFeedback ==
    [state |-> "none", analysis |-> Unset, reply |-> <<>>, calls |-> <<>>,
     shown |-> FALSE, id |-> NoId]

\* What main() does with the analysis: analysis['feedback_analysis'] needs a
\* dict with that key (main1.py prints nothing of it).
CanShow(variant, analysis) ==
    \/ variant = "main1"
    \/ analysis.t = "o" /\ HasKey(analysis.m, "feedback_analysis")

\* The call of process_feedback(feedback, result["structured_goal"],
\* result["strategy"]) in main() and the lines that follow it.
CliFeedback(r, inp) ==
    Bind(CASE r.variant = "workflow" -> workflow_process_feedback(inp)
           [] r.variant = "workflow1" -> workflow1_process_feedback(inp)
           [] r.variant = "main" -> main_process_feedback(inp)
           [] r.variant = "main1" -> main1_process_feedback(inp),
         LAMBDA e :
            [state |-> IF e.kind = "raise" THEN "raised" ELSE "returned",
             analysis |-> IF e.kind = "raise" THEN Unset ELSE e.val,
             reply |-> inp.text,
             calls |-> <<[role |-> "Feedback",
                          prompt |-> FeedbackPrompt(r.structured_goal, r.strategy,
                                                    <<>>)]>>,
             shown |-> e.kind # "raise" /\ CanShow(r.variant, e.val),
             id |-> NoId])

----------------------------------------------------------------------------
(* The HTTP handlers of main_api.py.                                       *)

NoResponse == [status |-> 0, body |-> Unset]

EmptyStore == [id \in {} |-> Unset]

\* What run_enhanced_investment_advisor returns (agent_insights, three
\* random numbers for the frontend, is left out).
Result(r) ==
    [structured_goal |-> r.structured_goal,
     investment_options |-> r.investment_options,
     strategy |-> r.enhanced_strategy,
     presentation |-> r.presentation,
     market_data |-> r.financial_insights,
     feedback_analysis |-> Unset]

\* A generate_strategy that stores whatever the advisor returned.
StoreResultAlways(store, r) ==
    (r.rec_id :> Result(r)) @@ store

\* A generate_strategy that keeps the latest recommendation alone.
StoreResultReplacing(store, r) ==
    IF r.pc = "done" THEN (r.rec_id :> Result(r)) ELSE store

\* generate_strategy after run_enhanced_investment_advisor has returned.
StoreResult(store, r) ==
    IF r.pc = "done" THEN (r.rec_id :> Result(r)) @@ store ELSE store

GenerateResponse(r) ==
    IF r.pc = "done" THEN [status |-> 200, body |-> r.enhanced_strategy]
    ELSE [status |-> 500, body |-> JStr("Failed to generate investment strategy")]

\* feedback_analysis: 404 for an unknown id; 500 when the analysis is empty
\* or has an "error" key; the analysis otherwise.
FeedbackResponse(store, id, analysis) ==
    IF id \notin DOMAIN store
    THEN [status |-> 404, body |-> JStr("Recommendation not found")]
    ELSE IF analysis = EmptyObj \/ HasKey(analysis.m, "error")
    THEN [status |-> 500, body |-> DictGet(analysis.m, "error",
                                           JStr("Failed to analyze feedback"))]
    ELSE [status |-> 200, body |-> analysis]

----------------------------------------------------------------------------
(* The Alpha Vantage client (agents/alpha_vantage_client.py; the class is  *)
(* repeated verbatim in agents/financial_data_agent.py).  Prices are whole *)
(* currency units, percentages are counted in hundredths of a percent,     *)
(* datetime.now() is counted in ticks, Hour of them to the hour, and a     *)
(* date of a daily series is the number of days it lies before the day of  *)
(* the call.                                                               *)

\* Python's None where the other operand is a string.
PyNone == "<None>"

Truthy(x) == x \notin {PyNone, ""}

\* a or b
PyOr(a, b) == IF Truthy(a) THEN a ELSE b

\* A float: a number, or nan.
Num(n) == [nan |-> FALSE, v |-> n]
NaN == [nan |-> TRUE, v |-> 0]

\* The numerals the provider's payloads are made of.
Numerals ==
    [s \in {"0", "40", "41", "43", "45", "50", "71", "74", "77", "80", "83",
            "87", "100", "125", "1339", "1534", "1549", "1580", "1596"} |->
        CASE s = "0" -> 0 [] s = "40" -> 40 [] s = "41" -> 41 [] s = "43" -> 43
          [] s = "45" -> 45 [] s = "50" -> 50 [] s = "71" -> 71 [] s = "74" -> 74 [] s = "77" -> 77
          [] s = "80" -> 80 [] s = "83" -> 83 [] s = "87" -> 87
          [] s = "100" -> 100 [] s = "125" -> 125
          [] s = "1339" -> 1339 [] s = "1534" -> 1534 [] s = "1549" -> 1549
          [] s = "1580" -> 1580 [] s = "1596" -> 1596]

Error(msg) == [error |-> msg]
IsError(r) == "error" \in DOMAIN r

\* What is left of a call that ended in an exception.
Raised(exc) == [raised |-> exc]
IsRaised(r) == "raised" \in DOMAIN r

\* float(s): "nan" is a float to Python; a text that is no number raises
\* ValueError, which the caller's except branch turns into its message.
float(s) ==
    IF s = "nan" THEN NaN
    ELSE IF s \in DOMAIN Numerals THEN Num(Numerals[s])
    ELSE Error("could not convert string to float")

\* A rounding that drops the fraction.
round_down(num, den) == num \div den

\* round(num / den) for den > 0, ties to the even neighbour.
round(num, den) ==
    LET q == num \div den
        r == num % den
    IN  IF 2 * r < den THEN q
        ELSE IF 2 * r > den THEN q + 1
        ELSE IF q % 2 = 0 THEN q ELSE q + 1

\* round(((current_price - past_price) / past_price) * 100, 2), in
\* hundredths; division by 0.0 raises, nan stays nan.
percent_change(current_price, past_price) ==
    IF ~past_price.nan /\ past_price.v = 0 THEN Error("float division by zero")
    ELSE IF current_price.nan \/ past_price.nan THEN NaN
    ELSE Num(round((current_price.v - past_price.v) * 10000, past_price.v))

\* AlphaVantageClient(): the credential read from the environment and an
\* empty cache; instance tells the objects apart.
AlphaVantageClient(api_key, instance) ==
    [api_key |-> api_key, instance |-> instance, cache |-> [k \in {} |-> PyNone]]

\* A Fetch that never fills the cache.
FetchNoStore(c, t, cache_key, ttl, outcome) ==
    IF ~c.api_key
    THEN [client |-> c, result |-> Error("API key not set"), sent |-> 0]
    ELSE [client |-> c, result |-> outcome, sent |-> 1]

\* A Fetch for which an entry is still fresh at the age of its time to live.
FetchFreshAtTTL(c, t, cache_key, ttl, outcome) ==
    IF ~c.api_key
    THEN [client |-> c, result |-> Error("API key not set"), sent |-> 0]
    ELSE IF cache_key \in DOMAIN c.cache
            /\ t - c.cache[cache_key].timestamp <= ttl
    THEN [client |-> c, result |-> c.cache[cache_key].data, sent |-> 0]
    ELSE IF IsError(outcome)
    THEN [client |-> c, result |-> outcome, sent |-> 1]
    ELSE [client |-> [c EXCEPT !.cache =
                        (cache_key :> [timestamp |-> t, data |-> outcome]) @@ @],
          result |-> outcome, sent |-> 1]

\* A Fetch without the credential check.
FetchWithoutCredential(c, t, cache_key, ttl, outcome) ==
    IF cache_key \in DOMAIN c.cache
       /\ t - c.cache[cache_key].timestamp < ttl
    THEN [client |-> c, result |-> c.cache[cache_key].data, sent |-> 0]
    ELSE IF IsError(outcome)
    THEN [client |-> c, result |-> outcome, sent |-> 1]
    ELSE [client |-> [c EXCEPT !.cache =
                        (cache_key :> [timestamp |-> t, data |-> outcome]) @@ @],
          result |-> outcome, sent |-> 1]

\* A Fetch that stores whatever its try block came to, errors too.
FetchStoresErrors(c, t, cache_key, ttl, outcome) ==
    IF ~c.api_key
    THEN [client |-> c, result |-> Error("API key not set"), sent |-> 0]
    ELSE IF cache_key \in DOMAIN c.cache /\ t - c.cache[cache_key].timestamp < ttl
    THEN [client |-> c, result |-> c.cache[cache_key].data, sent |-> 0]
    ELSE [client |-> [c EXCEPT !.cache = (cache_key :> [timestamp |-> t, data |-> outcome]) @@ @],
          result |-> outcome, sent |-> 1]

\* The frame every fetch is written in: the credential check, the cache
\* check against the time to live, one request, and the cache update when
\* the try block got to it.  outcome is what the try block comes to on the
\* provider's answer: the result, or the error of its except branch.
Fetch(c, t, cache_key, ttl, outcome) ==
    IF ~c.api_key
    THEN [client |-> c, result |-> Error("API key not set"), sent |-> 0]
    ELSE IF cache_key \in DOMAIN c.cache
            /\ t - c.cache[cache_key].timestamp < ttl
    THEN [client |-> c, result |-> c.cache[cache_key].data, sent |-> 0]
    ELSE IF IsError(outcome)
    THEN [client |-> c, result |-> outcome, sent |-> 1]
    ELSE [client |-> [c EXCEPT !.cache =
                        (cache_key :> [timestamp |-> t, data |-> outcome]) @@ @],
          result |-> outcome, sent |-> 1]

\* Ticks of the clock to the hour.
Hour == 2

\* timedelta(hours=1), (hours=6), (hours=24) and (hours=6).
QuoteTTL == 1 * Hour
MetricsTTL == 6 * Hour
OverviewTTL == 24 * Hour
SectorTTL == 6 * Hour

\* The provider's answers to GLOBAL_QUOTE: requests.get raises (with or
\* without a message), the payload has no "Global Quote", the quote has no
\* "05. price", or it has the price text given.
QuoteAnswer(kind, text) == [kind |-> kind, text |-> text]

\* The try block of get_stock_price.
QuoteOutcome(symbol, answer) ==
    CASE answer.kind = "raise" -> Error(answer.text)
      [] answer.kind = "no quote" -> Error("No data found for symbol")
      [] answer.kind = "no price" -> Error("'05. price'")
      [] OTHER ->
            LET price == float(answer.text)
            IN  IF IsError(price) THEN price
                ELSE [symbol |-> symbol, price |-> price]

get_stock_price(c, t, symbol, provider) ==
    Fetch(c, t, <<"price", symbol>>, QuoteTTL,
          QuoteOutcome(symbol, provider.quote))

\* The provider's answers to TIME_SERIES_DAILY: requests.get raises, the
\* payload has no "Time Series (Daily)", or it has the series given, a
\* function from dates to the text of "4. close".
SeriesAnswer(kind, text, series) == [kind |-> kind, text |-> text, series |-> series]

periods == <<[name |-> "1mo", days |-> 30], [name |-> "3mo", days |-> 90],
             [name |-> "6mo", days |-> 180], [name |-> "1yr", days |-> 365]>>

\* sorted(time_series.keys(), reverse=True): the latest date first.
RECURSIVE sorted_reverse(_)
sorted_reverse(dates) ==
    IF dates = {} THEN <<>>
    ELSE LET latest == CHOOSE d \in dates : \A e \in dates : d <= e
         IN  <<latest>> \o sorted_reverse(dates \ {latest})

\* abs((strptime(x) - strptime(target_date)).days), the target date being
\* days before today.
day_distance(x, days) == IF x >= days THEN x - days ELSE days - x

\* A min that keeps the last of equally near dates.
RECURSIVE py_min_last(_, _, _)
py_min_last(dates, days, best) ==
    IF dates = <<>> THEN best
    ELSE py_min_last(Tail(dates), days,
                IF day_distance(Head(dates), days) <= day_distance(best, days)
                THEN Head(dates) ELSE best)

\* min(dates, key=...): the first element no later one is strictly below.
RECURSIVE py_min(_, _, _)
py_min(dates, days, best) ==
    IF dates = <<>> THEN best
    ELSE py_min(Tail(dates), days,
                IF day_distance(Head(dates), days) < day_distance(best, days)
                THEN Head(dates) ELSE best)

closest_date(dates, days) == py_min(Tail(dates), days, Head(dates))

\* The body of the loop over the periods, for one period: the entry of
\* the period, or the exception that ends the try block.
PeriodEntry(series, dates, current_price, days) ==
    LET closest == closest_date(dates, days)
    IN  IF day_distance(closest, days) <= 7
        THEN LET past_price == float(series[closest])
             IN  IF IsError(past_price) THEN Raised(past_price.error)
                 ELSE LET change == percent_change(current_price, past_price)
                      IN  IF IsError(change) THEN Raised(change.error)
                          ELSE [price_change_percent |-> change,
                                reference_date |-> closest]
        ELSE Error("No data available within 7 days of target date")

\* The try block of get_performance_metrics.
SeriesOutcome(symbol, answer) ==
    CASE answer.kind = "raise" -> Error(answer.text)
      [] answer.kind = "no series" \/ DOMAIN answer.series = {} ->
            Error("No performance data found for symbol")
      [] OTHER ->
            LET dates == sorted_reverse(DOMAIN answer.series)
                current_price == float(answer.series[dates[1]])
                entries == [i \in 1..4 |->
                              PeriodEntry(answer.series, dates, current_price,
                                          periods[i].days)]
            IN  IF IsError(current_price) THEN current_price
                ELSE IF \E i \in 1..4 : IsRaised(entries[i])
                THEN Error(entries[CHOOSE i \in 1..4 :
                                /\ IsRaised(entries[i])
                                /\ \A j \in 1..(i - 1) : ~IsRaised(entries[j])].raised)
                ELSE [symbol |-> symbol, current_price |-> current_price,
                      performance |-> entries]

get_performance_metrics(c, t, symbol, provider) ==
    Fetch(c, t, <<"metrics", symbol>>, MetricsTTL,
          SeriesOutcome(symbol, provider.series))

\* The provider's answers to OVERVIEW: requests.get raises, the payload is
\* empty, it has an "Error Message", or it has the name given ("" for a
\* payload without "Name").
OverviewAnswer(kind, text) == [kind |-> kind, text |-> text]

\* The try block of get_etf_overview (of the ten fields read with
\* data.get(field, "Unknown") the model keeps the name).
OverviewOutcome(symbol, answer) ==
    CASE answer.kind = "raise" -> Error(answer.text)
      [] answer.kind \in {"empty", "error message"} ->
            Error("No overview data found for symbol")
      [] OTHER -> [symbol |-> symbol,
                   name |-> IF answer.text = "" THEN "Unknown" ELSE answer.text]

get_etf_overview(c, t, symbol, provider) ==
    Fetch(c, t, <<"overview", symbol>>, OverviewTTL,
          OverviewOutcome(symbol, provider.overview))

\* The provider's answers to SECTOR: requests.get raises, the payload has
\* no "Rank A: Real-Time Performance", or it has the ranking given, a
\* sequence of sector and percentage text.
SectorAnswer(kind, text, ranks) == [kind |-> kind, text |-> text, ranks |-> ranks]

\* The try block of get_sector_performance.
SectorOutcome(answer) ==
    CASE answer.kind = "raise" -> Error(answer.text)
      [] answer.kind = "no rank" -> Error("No sector performance data available")
      [] OTHER -> [sectors |-> answer.ranks]

get_sector_performance(c, t, provider) ==
    Fetch(c, t, <<"sector_performance", "">>, SectorTTL, SectorOutcome(provider.sector))

\* x > y and x < y on floats: false as soon as one of them is nan.
FGt(x, y) == ~x.nan /\ ~y.nan /\ x.v > y.v
FLt(x, y) == ~x.nan /\ ~y.nan /\ x.v < y.v

\* max(performances) and min(performances): the first element is kept
\* until a later one compares above (below) it.
RECURSIVE py_max(_, _)
py_max(xs, best) ==
    IF xs = <<>> THEN best
    ELSE py_max(Tail(xs), IF FGt(Head(xs), best) THEN Head(xs) ELSE best)

RECURSIVE py_fmin(_, _)
py_fmin(xs, best) ==
    IF xs = <<>> THEN best
    ELSE py_fmin(Tail(xs), IF FLt(Head(xs), best) THEN Head(xs) ELSE best)

\* A volatility that leaves the last of the performances out.
VolatilityWithoutLast(performances) ==
    LET firsts == IF Len(performances) > 1
                  THEN SubSeq(performances, 1, Len(performances) - 1)
                  ELSE performances
        hi == py_max(Tail(firsts), Head(firsts))
        lo == py_fmin(Tail(firsts), Head(firsts))
    IN  IF hi.nan \/ lo.nan THEN NaN ELSE Num(hi.v - lo.v)

\* max(performances) - min(performances)
Volatility(performances) ==
    LET hi == py_max(Tail(performances), Head(performances))
        lo == py_fmin(Tail(performances), Head(performances))
    IN  IF hi.nan \/ lo.nan THEN NaN ELSE Num(hi.v - lo.v)

\* min(10, max(1, round(volatility / 5))), the volatility in hundredths.
risk_score(volatility) ==
    LET r == round(volatility, 500)
        lower == IF r < 1 THEN 1 ELSE r
    IN  IF lower > 10 THEN 10 ELSE lower

\* A risk_match in which "medium" starts above 4.
risk_match_medium_above_4(risk_tolerance, score) ==
    \/ risk_tolerance = "low" /\ score <= 4
    \/ risk_tolerance = "medium" /\ score > 4 /\ score <= 7
    \/ risk_tolerance = "high" /\ score > 6

\* A risk_match in which "low" ends below 4.
risk_match_low_below_4(risk_tolerance, score) ==
    \/ risk_tolerance = "low" /\ score < 4
    \/ risk_tolerance = "medium" /\ score > 3 /\ score <= 7
    \/ risk_tolerance = "high" /\ score > 6

\* The if / elif chain that sets risk_match.
risk_match(risk_tolerance, score) ==
    IF risk_tolerance = "low" /\ score <= 4 THEN TRUE
    ELSE IF risk_tolerance = "medium" /\ score > 3 /\ score <= 7 THEN TRUE
    ELSE IF risk_tolerance = "high" /\ score > 6 THEN TRUE
    ELSE FALSE

\* A recommendation that buys on the yearly change alone.
recommendation_without_match(performance, match) ==
    LET yearly_performance ==
            IF "price_change_percent" \in DOMAIN performance[4]
            THEN performance[4].price_change_percent ELSE Num(0)
    IN  IF FGt(yearly_performance, Num(1500)) THEN "buy"
        ELSE IF FLt(yearly_performance, Num(-1000)) THEN "avoid"
        ELSE "hold"

\* The recommendation from the 1yr entry of the performance map.
recommendation(performance, match) ==
    LET yearly_performance ==
            IF "price_change_percent" \in DOMAIN performance[4]
            THEN performance[4].price_change_percent ELSE Num(0)
    IN  IF yearly_performance = Num(0) THEN "hold"
        ELSE IF FGt(yearly_performance, Num(1500)) /\ match THEN "buy"
        ELSE IF FLt(yearly_performance, Num(-1000)) THEN "avoid"
        ELSE "hold"

\* result.get("error")
GetError(result) == IF IsError(result) THEN result.error ELSE PyNone

\* analyze_etf_for_investment once both fetches have returned.
Analysis(symbol, risk_tolerance, metrics, price_data) ==
    IF IsError(metrics) \/ IsError(price_data)
    THEN [symbol |-> symbol,
          error |-> PyOr(GetError(metrics), GetError(price_data))]
    ELSE LET valued == SelectSeq(metrics.performance,
                          LAMBDA v : "price_change_percent" \in DOMAIN v)
             performances == [i \in 1..Len(valued) |->
                                valued[i].price_change_percent]
         IN  IF performances = <<>>
             THEN [symbol |-> symbol, error |-> "Insufficient performance data"]
             ELSE LET volatility == Volatility(performances)
                  IN  IF volatility.nan THEN Raised("ValueError")
                      ELSE LET score == risk_score(volatility.v)
                               match == risk_match(risk_tolerance, score)
                           IN  [symbol |-> symbol,
                                current_price |-> price_data.price,
                                performance |-> metrics.performance,
                                risk_score |-> score,
                                volatility |-> volatility.v,
                                risk_match |-> match,
                                recommendation |->
                                    recommendation(metrics.performance, match)]

analyze_etf_for_investment(c, t, symbol, risk_tolerance, provider) ==
    Bind(get_performance_metrics(c, t, symbol, provider), LAMBDA m :
    Bind(get_stock_price(m.client, t, symbol, provider), LAMBDA p :
        [client |-> p.client,
         result |-> Analysis(symbol, risk_tolerance, m.result, p.result),
         sent |-> m.sent + p.sent]))

\* FinancialDataTool(): a tool with a client of its own.
FinancialDataTool(api_key, instance) == AlphaVantageClient(api_key, instance)

\* The loop of evaluate_portfolio_symbols; acc holds the client, the
\* locals of the function and the requests made.  An exception in an
\* analysis ends the loop and the call.
RECURSIVE EvaluateLoop(_, _, _, _, _)
EvaluateLoop(acc, t, symbols, risk_tolerance, provider) ==
    IF symbols = <<>> \/ acc.raised # PyNone THEN acc
    ELSE Bind(analyze_etf_for_investment(acc.client, t, Head(symbols),
                                         risk_tolerance, provider),
         LAMBDA a :
            EvaluateLoop(
                IF IsRaised(a.result)
                THEN [acc EXCEPT !.client = a.client,
                                 !.sent = @ + a.sent,
                                 !.raised = a.result.raised]
                ELSE [client |-> a.client,
                      results |-> (Head(symbols) :> a.result) @@ acc.results,
                      valid_symbols |->
                          IF IsError(a.result) THEN acc.valid_symbols
                          ELSE Append(acc.valid_symbols, Head(symbols)),
                      total_volatility |->
                          IF IsError(a.result) THEN acc.total_volatility
                          ELSE acc.total_volatility + a.result.volatility,
                      matched_risk_count |->
                          IF ~IsError(a.result) /\ a.result.risk_match
                          THEN acc.matched_risk_count + 1
                          ELSE acc.matched_risk_count,
                      sent |-> acc.sent + a.sent,
                      raised |-> PyNone],
                t, Tail(symbols), risk_tolerance, provider))

\* An evaluation whose aggregates are taken over every symbol asked for.
evaluate_portfolio_symbols_over_all(c, t, symbols, risk_tolerance, provider) ==
    Bind(EvaluateLoop([client |-> c, results |-> [s \in {} |-> PyNone],
                       valid_symbols |-> <<>>, total_volatility |-> 0,
                       matched_risk_count |-> 0, sent |-> 0, raised |-> PyNone],
                      t, symbols, risk_tolerance, provider),
         LAMBDA acc :
            LET n == Len(symbols)
            IN  [client |-> acc.client,
                 sent |-> acc.sent,
                 result |->
                    IF acc.raised # PyNone THEN Raised(acc.raised)
                    ELSE [symbol_evaluations |-> acc.results,
                          portfolio_metrics |->
                             [total_symbols |-> Len(symbols),
                              valid_symbols |-> n,
                              avg_volatility |->
                                 IF n > 0 THEN round(acc.total_volatility, n)
                                 ELSE 0,
                              risk_match_percentage |->
                                 IF n > 0
                                 THEN round(acc.matched_risk_count * 10000, n)
                                 ELSE 0,
                              diversification_score |->
                                 IF n > 0 THEN (IF n < 10 THEN n ELSE 10)
                                 ELSE 0]]])

evaluate_portfolio_symbols(c, t, symbols, risk_tolerance, provider) ==
    Bind(EvaluateLoop([client |-> c, results |-> [s \in {} |-> PyNone],
                       valid_symbols |-> <<>>, total_volatility |-> 0,
                       matched_risk_count |-> 0, sent |-> 0, raised |-> PyNone],
                      t, symbols, risk_tolerance, provider),
         LAMBDA acc :
            LET n == Len(acc.valid_symbols)
            IN  [client |-> acc.client,
                 sent |-> acc.sent,
                 result |->
                    IF acc.raised # PyNone THEN Raised(acc.raised)
                    ELSE [symbol_evaluations |-> acc.results,
                          portfolio_metrics |->
                             [total_symbols |-> Len(symbols),
                              valid_symbols |-> n,
                              avg_volatility |->
                                 IF n > 0 THEN round(acc.total_volatility, n)
                                 ELSE 0,
                              risk_match_percentage |->
                                 IF n > 0
                                 THEN round(acc.matched_risk_count * 10000, n)
                                 ELSE 0,
                              diversification_score |->
                                 IF n > 0 THEN (IF n < 10 THEN n ELSE 10)
                                 ELSE 0]]])

\* alternatives_map.get(risk_tolerance, ["VTI", "BND", "VXUS"])
alternatives_map(risk_tolerance) ==
    CASE risk_tolerance = "low" -> <<"BND", "VTIP", "VGSH", "VMBS", "MUB">>
      [] risk_tolerance = "medium" -> <<"VTI", "VOO", "VIG", "IJH", "VXUS">>
      [] risk_tolerance = "high" -> <<"VGT", "VB", "VWO", "ARKK", "QQQ">>
      [] OTHER -> <<"VTI", "BND", "VXUS">>

\* The loop of find_alternative_investments over possible_alternatives[:count].
\* (The list it returns is the field alternatives of the model's result.)
RECURSIVE AlternativesLoop(_, _, _, _, _, _)
AlternativesLoop(acc, t, candidates, risk_tolerance, count, provider) ==
    IF candidates = <<>> \/ acc.raised # PyNone \/ Len(acc.results) >= count
    THEN acc
    ELSE Bind(analyze_etf_for_investment(acc.client, t, Head(candidates),
                                         risk_tolerance, provider),
         LAMBDA a :
            AlternativesLoop(
                [client |-> a.client,
                 results |->
                    IF IsRaised(a.result) \/ IsError(a.result) THEN acc.results
                    ELSE Append(acc.results, [symbol |-> Head(candidates),
                                              analysis |-> a.result]),
                 sent |-> acc.sent + a.sent,
                 raised |-> IF IsRaised(a.result) THEN a.result.raised
                            ELSE PyNone],
                t, Tail(candidates), risk_tolerance, count, provider))

find_alternative_investments(c, t, symbol, risk_tolerance, count, provider) ==
    LET possible_alternatives ==
            SelectSeq(alternatives_map(risk_tolerance), LAMBDA s : s # symbol)
    IN  Bind(AlternativesLoop([client |-> c, results |-> <<>>, sent |-> 0,
                               raised |-> PyNone],
                              t, SubSeq(possible_alternatives, 1,
                                        IF count < Len(possible_alternatives)
                                        THEN count
                                        ELSE Len(possible_alternatives)),
                              risk_tolerance, count, provider),
             LAMBDA acc :
                [client |-> acc.client, sent |-> acc.sent,
                 result |-> IF acc.raised # PyNone THEN Raised(acc.raised)
                            ELSE [alternatives |-> acc.results]])

\* sector_mapping.get(symbol, "Unknown")
sector_mapping(symbol) ==
    CASE symbol \in {"VTI", "VOO"} -> "US Stocks"
      [] symbol = "VGT" -> "Technology"
      [] symbol = "VHT" -> "Healthcare"
      [] symbol = "VFH" -> "Financials"
      [] symbol = "VNQ" -> "Real Estate"
      [] symbol = "BND" -> "US Bonds"
      [] symbol = "VXUS" -> "International Stocks"
      [] symbol = "VWO" -> "Emerging Markets"
      [] symbol = "BNDX" -> "International Bonds"
      [] OTHER -> "Unknown"

key_sectors == <<"US Stocks", "International Stocks", "US Bonds", "Real Estate">>

\* The rationale of the entry for a missing key sector.
rationale(sector) ==
    CASE sector = "US Stocks" -> "Provides broad US market exposure"
      [] sector = "International Stocks" -> "Adds international diversification"
      [] sector = "US Bonds" -> "Adds stability and income"
      [] OTHER -> "Provides exposure to real estate sector"

\* An entry whose symbol is the same for every risk tolerance.
suggested_addition_static(sector, risk_tolerance) ==
    [sector |-> sector,
     symbol |-> CASE sector = "US Stocks" -> "VTI"
                  [] sector = "International Stocks" -> "VXUS"
                  [] sector = "US Bonds" -> "BND"
                  [] OTHER -> "VNQ",
     rationale |-> rationale(sector)]

\* The entry appended to suggested_additions for a missing key sector.
suggested_addition(sector, risk_tolerance) ==
    [sector |-> sector,
     symbol |-> CASE sector = "US Stocks" ->
                        IF risk_tolerance # "low" THEN "VTI" ELSE "VIG"
                  [] sector = "International Stocks" -> "VXUS"
                  [] sector = "US Bonds" -> "BND"
                  [] OTHER -> "VNQ",
     rationale |-> rationale(sector)]

\* float(performance.strip("%").strip("+")) on the texts of the ranking,
\* in hundredths; any other text raises and is skipped.
PercentTexts == [s \in {"+1.45%", "+0.80%", "-0.30%", "+2.10%"} |->
                    CASE s = "+1.45%" -> 145 [] s = "+0.80%" -> 80
                      [] s = "-0.30%" -> -30 [] s = "+2.10%" -> 210]

\* f"{perf}%"
FormatPercent(perf) ==
    CASE perf = 145 -> "1.45%" [] perf = 80 -> "0.8%"
      [] perf = -30 -> "-0.3%" [] perf = 210 -> "2.1%"

\* top_sectors.sort(key=lambda x: x[1], reverse=True): elements that
\* compare equal keep their order.
RECURSIVE sort_reverse(_)
sort_reverse(xs) ==
    IF xs = <<>> THEN <<>>
    ELSE LET i == CHOOSE i \in 1..Len(xs) :
                    /\ \A j \in 1..Len(xs) : xs[j].perf <= xs[i].perf
                    /\ \A j \in 1..(i - 1) : xs[j].perf < xs[i].perf
         IN  <<xs[i]>> \o sort_reverse(SubSeq(xs, 1, i - 1)
                                       \o SubSeq(xs, i + 1, Len(xs)))

top_performing_sectors(ranks) ==
    LET parsed == SelectSeq(ranks, LAMBDA r : r.performance \in DOMAIN PercentTexts)
        top_sectors == sort_reverse([i \in 1..Len(parsed) |->
                            [sector |-> parsed[i].sector,
                             perf |-> PercentTexts[parsed[i].performance]]])
    IN  [i \in 1..(IF Len(top_sectors) < 3 THEN Len(top_sectors) ELSE 3) |->
            [sector |-> top_sectors[i].sector,
             performance |-> FormatPercent(top_sectors[i].perf)]]

\* The recommendations dict, from the symbols and the sector data.
Recommendations(symbols, risk_tolerance, sector_data) ==
    LET held == {sector_mapping(symbols[i]) : i \in 1..Len(symbols)}
        missing_sectors == SelectSeq(key_sectors, LAMBDA s : s \notin held)
    IN  [missing_sectors |-> missing_sectors,
         sector_allocation |->
            [s \in held |->
                Cardinality({i \in 1..Len(symbols) : sector_mapping(symbols[i]) = s})],
         suggested_additions |->
            [i \in 1..Len(missing_sectors) |->
                suggested_addition(missing_sectors[i], risk_tolerance)]]
        @@ (IF "sectors" \in DOMAIN sector_data
            THEN [top_performing_sectors |->
                    top_performing_sectors(sector_data.sectors)]
            ELSE [k \in {} |-> PyNone])

get_portfolio_diversification_recommendations(c, t, symbols, risk_tolerance, provider) ==
    Bind(get_sector_performance(c, t, provider), LAMBDA s :
    Bind(evaluate_portfolio_symbols(s.client, t, symbols, risk_tolerance,
                                    provider), LAMBDA e :
        [client |-> e.client, sent |-> s.sent + e.sent,
         result |-> IF IsRaised(e.result) THEN e.result
                    ELSE Recommendations(symbols, risk_tolerance, s.result)]))

\* get_financial_data_agent: every caller gets a FinancialDataTool of its
\* own behind the function map.
get_financial_data_agent(api_key, instance) == FinancialDataTool(api_key, instance)

\* No call has been made on the tool yet.
NoCall == [n |-> 0, op |-> "none", key |-> <<>>, instance |-> 0, at |-> 0,
           sent |-> 0, input |-> [none |-> TRUE], result |-> [none |-> TRUE]]

NoTool ==
    /\ client = AlphaVantageClient(FALSE, 1)
    /\ clock = 0
    /\ call = NoCall

----------------------------------------------------------------------------
(* Spec: one orchestrator variant serving requests, one model call per     *)
(* step, over small sets of model replies.                                 *)

MaxRequests == 2
MaxTime == 1

\* POST /api/generate-strategy bodies (risk_tolerance, investment_horizon).
Requests == {[risk_tolerance |-> 1, investment_horizon |-> 9],
             [risk_tolerance |-> 2, investment_horizon |-> 10],
             [risk_tolerance |-> 3, investment_horizon |-> 20],
             [risk_tolerance |-> 1, investment_horizon |-> 21]}

GoalReplies ==
    { <<LB, "goal_type", "retirement", COMMA, "risk_tolerance", "high", RB>>,
      <<PROSE, LB, "goal_type", "retirement", RB, PROSE>>,
      <<PROSE>>,
      <<LB, PROSE, RB>> }

RetrievalReplies ==
    { <<PROSE, LB, "products", "v", RB>>,
      <<LB, "products", RB>> }

InvestmentReplies ==
    { <<LB, "product_votes", "v", RB>>,
      <<PROSE, LB, "product_votes", "w", RB, PROSE>>,
      <<RB, PROSE, LB>> }

RiskReplies ==
    { <<LB, "product_votes", "v", RB>>,
      <<PROSE>> }

GoalVoteReplies ==
    { <<LB, "product_votes", "w", RB>>,
      <<LB, "product_votes", RB>> }

StrategyReplies ==
    { <<LB, "description", "v", RB>>,
      <<PROSE, LB, "products", LSQ, LB, "name", "VTI (Vanguard Total Stock Market)",
        RB, RSQ, RB>>,
      <<LB, "products", "v", RB>>,
      <<PROSE>> }

MarketDataReplies == { <<PROSE>> }

EnhancementReplies ==
    { <<LB, "description", "w", RB>>,
      <<PROSE>>,
      <<LB, PROSE, RB>> }

PresentationReplies == { <<PROSE>> }

FeedbackReplies ==
    { <<LB, "feedback_analysis", "v", COMMA, "risk_adjustment", "lower", RB>>,
      <<PROSE, LB, "risk_adjustment", "lower", RB>>,
      <<LB, RB>>,
      <<LB, "error", "v", RB>>,
      <<PROSE>>,
      <<LB, PROSE, RB>> }

\* The inputs of a step: a reply text; for main1.py also the case where
\* group_chat.messages has no message of the agent.
Inputs(r, texts) ==
    {Reply(t) : t \in texts}
    \cup (IF r.variant = "main1" THEN {[text |-> <<>>, listed |-> FALSE]} ELSE {})

Init ==
    /\ \E variant \in Variants :
         \E has_key \in (IF variant = "main_api" THEN BOOLEAN ELSE {FALSE}) :
            /\ run = IdleRun(variant, has_key)
            /\ run2 = IdleRun(variant, has_key)
    /\ fb = NoFeedback
    /\ recommendations = EmptyStore
    /\ http = NoResponse
    /\ now = 0
    /\ nreq = 0
    /\ response_string = <<>>
    /\ extract_fn = "InlineExtract"
    /\ extracted = [kind |-> "pending", val |-> JNull, parsed |-> FALSE]
    /\ NoTool

\* The step ends with the orchestrator in state r; in main_api.py, when r
\* is the end of run_enhanced_investment_advisor, generate_strategy stores
\* the result and answers.
Finish(r) ==
    /\ run' = r
    /\ IF r.variant = "main_api" /\ r.pc \in {"done", "failed"}
       THEN /\ recommendations' = StoreResult(recommendations, r)
            /\ http' = GenerateResponse(r)
       ELSE UNCHANGED <<recommendations, http>>
    /\ UNCHANGED <<fb, now, nreq, run2, evars, cvars>>

\* A request arrives: main()'s loop reads a goal (also after an exception,
\* which main() catches), or POST /api/generate-strategy computes the id
\* from len(recommendations) and the loop's clock.
StartRun ==
    /\ run.pc \in {"idle", "done", "failed", "raised"}
    /\ nreq < MaxRequests
    /\ nreq' = nreq + 1
    /\ \E t \in now..MaxTime :
         /\ now' = t
         /\ IF run.variant = "main_api"
            THEN \E request \in Requests :
                    run' = NewRun(run.variant, run.has_key, request,
                                  [n |-> Cardinality(DOMAIN recommendations) + 1,
                                   t |-> t])
            ELSE run' = NewRun(run.variant, run.has_key, NoRequest, NoId)
    /\ fb' = NoFeedback
    /\ http' = NoResponse
    /\ UNCHANGED <<recommendations, run2, evars, cvars>>

GoalExtraction ==
    /\ run.pc = "GoalExtraction"
    /\ \E inp \in Inputs(run, GoalReplies) : Finish(GoalExtractionStage(run, inp))

MarketData ==
    /\ run.pc = "MarketData"
    /\ \E inp \in Inputs(run, MarketDataReplies) : Finish(MarketDataStage(run, inp))

Retrieval ==
    /\ run.pc = "Retrieval"
    /\ \E inp \in Inputs(run, RetrievalReplies) : Finish(RetrievalStage(run, inp))

Investment ==
    /\ run.pc = "Investment"
    /\ \E inp \in Inputs(run, InvestmentReplies) : Finish(InvestmentStage(run, inp))

Risk ==
    /\ run.pc = "Risk"
    /\ \E inp \in Inputs(run, RiskReplies) : Finish(RiskStage(run, inp))

Goal ==
    /\ run.pc = "Goal"
    /\ \E inp \in Inputs(run, GoalVoteReplies) : Finish(GoalStage(run, inp))

Coordination ==
    /\ run.pc = "Coordination"
    /\ \E inp \in Inputs(run, StrategyReplies) : Finish(CoordinationStage(run, inp))

Enhancement ==
    /\ run.pc = "Enhancement"
    /\ \E inp \in Inputs(run, EnhancementReplies) : Finish(EnhancementStage(run, inp))

Presentation ==
    /\ run.pc = "Presentation"
    /\ \E inp \in Inputs(run, PresentationReplies) : Finish(PresentationStage(run, inp))

\* main(): feedback on the strategy just presented.
ProcessFeedback ==
    /\ run.variant # "main_api"
    /\ run.pc = "done"
    /\ fb.state = "none"
    /\ nreq < MaxRequests
    /\ nreq' = nreq + 1
    /\ \E inp \in Inputs(run, FeedbackReplies) : fb' = CliFeedback(run, inp)
    /\ UNCHANGED <<run, recommendations, http, now, run2, evars, cvars>>

UnknownId == [n |-> 9, t |-> 9]

\* POST /api/process-feedback: feedback_analysis and the process_feedback
\* it awaits.
FeedbackRequest ==
    /\ run.variant = "main_api"
    /\ run.pc \in {"idle", "done", "failed"}
    /\ nreq < MaxRequests
    /\ nreq' = nreq + 1
    /\ \E id \in DOMAIN recommendations \cup {UnknownId} :
         IF id \notin DOMAIN recommendations
         THEN /\ fb' = [NoFeedback EXCEPT !.state = "not found", !.id = id]
              /\ http' = FeedbackResponse(recommendations, id, Unset)
              /\ UNCHANGED recommendations
         ELSE \E inp \in Inputs(run, FeedbackReplies) :
              \E e \in {api_process_feedback(inp)} :
                LET recommendation_data == recommendations[id]
                IN /\ fb' = [state |-> "returned", analysis |-> e.val,
                             reply |-> inp.text,
                             calls |-> <<[role |-> "Feedback",
                                          prompt |-> FeedbackPrompt(
                                              recommendation_data.structured_goal,
                                              recommendation_data.strategy,
                                              recommendation_data.market_data)]>>,
                             shown |-> FALSE, id |-> id]
                   /\ recommendations' =
                        IF e.parsed
                        THEN [recommendations EXCEPT ![id].feedback_analysis = e.val]
                        ELSE recommendations
                   /\ http' = FeedbackResponse(recommendations, id, e.val)
    /\ UNCHANGED <<run, now, run2, evars, cvars>>

Next ==
    \/ StartRun
    \/ GoalExtraction
    \/ MarketData
    \/ Retrieval
    \/ Investment
    \/ Risk
    \/ Goal
    \/ Coordination
    \/ Enhancement
    \/ Presentation
    \/ ProcessFeedback
    \/ FeedbackRequest

Spec == Init /\ [][Next]_vars

----------------------------------------------------------------------------
(* PairSpec: two runs of the same orchestrator on the same request, side   *)
(* by side.  The model gives both the same reply at every stage but the    *)
(* three specialists', whose replies are chosen for each run separately.   *)

SharedReply(stage) == stage \notin Specialists

PairInit ==
    /\ \E variant \in Variants :
         \E has_key \in (IF variant = "main_api" THEN BOOLEAN ELSE {FALSE}) :
            \E request \in (IF variant = "main_api" THEN Requests ELSE {NoRequest}) :
                /\ run = NewRun(variant, has_key, request, NoId)
                /\ run2 = NewRun(variant, has_key, request, NoId)
    /\ fb = NoFeedback
    /\ recommendations = EmptyStore
    /\ http = NoResponse
    /\ now = 0
    /\ nreq = 0
    /\ response_string = <<>>
    /\ extract_fn = "InlineExtract"
    /\ extracted = [kind |-> "pending", val |-> JNull, parsed |-> FALSE]
    /\ NoTool

\* Each run that is at the stage makes the stage's call and handles the
\* reply; a run that has ended, or is not there yet, stays as it is.
PairStep(stage, StageOp(_, _), replies) ==
    /\ \E inp \in Inputs(run, replies), inp2 \in Inputs(run2, replies) :
         /\ SharedReply(stage) => inp = inp2
         /\ run' = IF run.pc = stage THEN StageOp(run, inp) ELSE run
         /\ run2' = IF run2.pc = stage THEN StageOp(run2, inp2) ELSE run2
    /\ UNCHANGED <<fb, recommendations, http, now, nreq, evars, cvars>>

PairGoalExtraction ==
    /\ "GoalExtraction" \in {run.pc, run2.pc}
    /\ PairStep("GoalExtraction", GoalExtractionStage, GoalReplies)
PairMarketData ==
    /\ "MarketData" \in {run.pc, run2.pc}
    /\ PairStep("MarketData", MarketDataStage, MarketDataReplies)
PairRetrieval ==
    /\ "Retrieval" \in {run.pc, run2.pc}
    /\ PairStep("Retrieval", RetrievalStage, RetrievalReplies)
PairInvestment ==
    /\ "Investment" \in {run.pc, run2.pc}
    /\ PairStep("Investment", InvestmentStage, InvestmentReplies)
PairRisk ==
    /\ "Risk" \in {run.pc, run2.pc}
    /\ PairStep("Risk", RiskStage, RiskReplies)
PairGoal ==
    /\ "Goal" \in {run.pc, run2.pc}
    /\ PairStep("Goal", GoalStage, GoalVoteReplies)
PairCoordination ==
    /\ "Coordination" \in {run.pc, run2.pc}
    /\ PairStep("Coordination", CoordinationStage, StrategyReplies)
PairEnhancement ==
    /\ "Enhancement" \in {run.pc, run2.pc}
    /\ PairStep("Enhancement", EnhancementStage, EnhancementReplies)
PairPresentation ==
    /\ "Presentation" \in {run.pc, run2.pc}
    /\ PairStep("Presentation", PresentationStage, PresentationReplies)

PairNext ==
    \/ PairGoalExtraction
    \/ PairMarketData
    \/ PairRetrieval
    \/ PairInvestment
    \/ PairRisk
    \/ PairGoal
    \/ PairCoordination
    \/ PairEnhancement
    \/ PairPresentation

PairSpec == PairInit /\ [][PairNext]_vars

----------------------------------------------------------------------------
(* ExtractSpec: every text up to MaxLen tokens, every extraction routine.  *)

MaxLen == 5

TextAlphabet == {LB, RB, "k", "v", PROSE}

RECURSIVE TextsUpTo(_)
TextsUpTo(n) ==
    IF n = 0 THEN {<<>>}
    ELSE LET shorter == TextsUpTo(n - 1) IN
         shorter \cup {Append(s, c) : s \in {x \in shorter : Len(x) = n - 1},
                                      c \in TextAlphabet}

Pending == [kind |-> "pending", val |-> JNull, parsed |-> FALSE]

ExtractInit ==
    /\ response_string \in TextsUpTo(MaxLen)
    /\ extract_fn \in ExtractFns
    /\ extracted = Pending
    /\ run = IdleRun("workflow", FALSE)
    /\ run2 = IdleRun("workflow", FALSE)
    /\ fb = NoFeedback
    /\ recommendations = EmptyStore
    /\ http = NoResponse
    /\ now = 0
    /\ nreq = 0
    /\ NoTool

ExtractCall ==
    /\ extracted = Pending
    /\ extracted' = ApplyExtract(extract_fn, response_string)
    /\ UNCHANGED <<response_string, extract_fn, pvars, cvars>>

ExtractNext == ExtractCall

ExtractSpec == ExtractInit /\ [][ExtractNext]_vars

----------------------------------------------------------------------------
(* ClientSpec: calls on the financial tools, the clock moving between      *)
(* them, and callers asking for the tools anew.  The provider answers      *)
(* every request of one call the same way.                                 *)

MaxCalls == 2
MaxAgents == 2

\* The orchestrators are not part of ClientSpec and AnalyzeSpec.
NoRun ==
    /\ response_string = <<>>
    /\ extract_fn = "InlineExtract"
    /\ extracted = Pending
    /\ run = IdleRun("workflow", FALSE)
    /\ run2 = IdleRun("workflow", FALSE)
    /\ fb = NoFeedback
    /\ recommendations = EmptyStore
    /\ http = NoResponse
    /\ now = 0
    /\ nreq = 0

\* The times at which the model looks at the clock: around each time to live.
Times == {0, 1, QuoteTTL, MetricsTTL, OverviewTTL}

Symbols == {"VTI", "BND"}

QuoteAnswers ==
    { QuoteAnswer("raise", "timeout"), QuoteAnswer("no quote", ""),
      QuoteAnswer("no price", ""), QuoteAnswer("quote", "100"),
      QuoteAnswer("quote", "abc"), QuoteAnswer("quote", "0") }

NoSeries == [d \in {} |-> ""]
GoodSeries == (0 :> "100") @@ (30 :> "80") @@ (90 :> "50")
NanSeries == (0 :> "100") @@ (30 :> "nan") @@ (90 :> "50")
ZeroSeries == (0 :> "100") @@ (30 :> "0")
FarSeries == (0 :> "100") @@ (60 :> "80")
CalmSeries == (0 :> "100") @@ (30 :> "87")

SeriesAnswers ==
    { SeriesAnswer("raise", "timeout", NoSeries), SeriesAnswer("raise", "", NoSeries),
      SeriesAnswer("no series", "", NoSeries), SeriesAnswer("series", "", GoodSeries),
      SeriesAnswer("series", "", ZeroSeries), SeriesAnswer("series", "", FarSeries) }

OverviewAnswers ==
    { OverviewAnswer("raise", "timeout"), OverviewAnswer("empty", ""),
      OverviewAnswer("error message", ""), OverviewAnswer("data", "Vanguard"),
      OverviewAnswer("data", "") }

Ranks == <<[sector |-> "Energy", performance |-> "+0.80%"],
           [sector |-> "Utilities", performance |-> "n/a"],
           [sector |-> "Technology", performance |-> "+2.10%"],
           [sector |-> "Financials", performance |-> "+0.80%"],
           [sector |-> "Health Care", performance |-> "-0.30%"]>>

SectorAnswers ==
    { SectorAnswer("raise", "timeout", <<>>), SectorAnswer("no rank", "", <<>>),
      SectorAnswer("ranks", "", Ranks) }

Provider(quote, series, sector) == [quote |-> quote, series |-> series, sector |-> sector]

\* The providers the calls that make several requests are run against.
Providers ==
    { Provider(QuoteAnswer("quote", "100"), SeriesAnswer("series", "", GoodSeries),
               SectorAnswer("ranks", "", Ranks)),
      Provider(QuoteAnswer("quote", "100"), SeriesAnswer("series", "", NanSeries),
               SectorAnswer("ranks", "", Ranks)),
      Provider(QuoteAnswer("quote", "100"), SeriesAnswer("series", "", CalmSeries),
               SectorAnswer("ranks", "", Ranks)),
      Provider(QuoteAnswer("quote", "100"), SeriesAnswer("series", "", FarSeries),
               SectorAnswer("no rank", "", <<>>)),
      Provider(QuoteAnswer("quote", "100"), SeriesAnswer("raise", "", NoSeries),
               SectorAnswer("ranks", "", Ranks)),
      Provider(QuoteAnswer("raise", "timeout"), SeriesAnswer("raise", "", NoSeries),
               SectorAnswer("raise", "timeout", <<>>)),
      Provider(QuoteAnswer("raise", "timeout"), SeriesAnswer("raise", "refused", NoSeries),
               SectorAnswer("raise", "timeout", <<>>)),
      Provider(QuoteAnswer("quote", "abc"), SeriesAnswer("series", "", GoodSeries),
               SectorAnswer("ranks", "", Ranks)) }

\* More symbols than the diversification score can count.
ElevenSymbols ==
    <<"VTI", "BND", "VXUS", "VOO", "VIG", "IJH", "VGT", "VB", "VWO", "ARKK", "QQQ">>

Portfolios == { <<"VTI">>, <<"VTI", "BND">>, <<"VTI", "VTI">>, ElevenSymbols }

ClientInit ==
    /\ NoRun
    /\ \E api_key \in BOOLEAN : client = get_financial_data_agent(api_key, 1)
    /\ clock = 0
    /\ call = NoCall

\* A call has returned (or raised): the tool's client and the record of
\* the call.
Return(op, key, input, out) ==
    /\ client' = out.client
    /\ call' = [n |-> call.n + 1, op |-> op, key |-> key,
                instance |-> client.instance, at |-> clock,
                sent |-> out.sent, input |-> input, result |-> out.result]
    /\ UNCHANGED <<clock, evars, pvars>>

\* Time passes between two calls.
Tick ==
    /\ call.n < MaxCalls
    /\ \E t \in Times : t > clock /\ clock' = t
    /\ UNCHANGED <<client, call, evars, pvars>>

\* A stage of a run (get_market_data_for_strategy,
\* enhance_investment_recommendations, evaluate_investments) asks for the
\* agent and gets new tools with it.
GetFinancialDataAgent ==
    /\ call.n < MaxCalls
    /\ client.instance < MaxAgents
    /\ client' = get_financial_data_agent(client.api_key, client.instance + 1)
    /\ UNCHANGED <<clock, call, evars, pvars>>

GetStockPrice ==
    /\ call.n < MaxCalls
    /\ \E symbol \in Symbols, answer \in QuoteAnswers :
         \E out \in {get_stock_price(client, clock, symbol, [quote |-> answer])} :
            Return("get_stock_price", <<"price", symbol>>, answer, out)

GetPerformanceMetrics ==
    /\ call.n < MaxCalls
    /\ \E answer \in SeriesAnswers :
         \E out \in {get_performance_metrics(client, clock, "VTI", [series |-> answer])} :
            Return("get_performance_metrics", <<"metrics", "VTI">>, answer, out)

GetEtfOverview ==
    /\ call.n < MaxCalls
    /\ \E answer \in OverviewAnswers :
         \E out \in {get_etf_overview(client, clock, "VTI", [overview |-> answer])} :
            Return("get_etf_overview", <<"overview", "VTI">>, answer, out)

GetSectorPerformance ==
    /\ call.n < MaxCalls
    /\ \E answer \in SectorAnswers :
         \E out \in {get_sector_performance(client, clock, [sector |-> answer])} :
            Return("get_sector_performance", <<"sector_performance", "">>, answer, out)

AnalyzeEtfForInvestment ==
    /\ call.n < MaxCalls
    /\ \E provider \in Providers :
         \E out \in {analyze_etf_for_investment(client, clock, "VTI", "low", provider)} :
            Return("analyze_etf_for_investment", <<"VTI", "low">>, provider, out)

EvaluatePortfolioSymbols ==
    /\ call.n < MaxCalls
    /\ \E symbols \in Portfolios, provider \in Providers :
         \E out \in {evaluate_portfolio_symbols(client, clock, symbols, "low", provider)} :
            Return("evaluate_portfolio_symbols", symbols, provider, out)

FindAlternativeInvestments ==
    /\ call.n < MaxCalls
    /\ \E provider \in Providers :
         \E out \in {find_alternative_investments(client, clock, "BND", "low", 3, provider)} :
            Return("find_alternative_investments", <<"BND", "low">>, provider, out)

GetPortfolioDiversificationRecommendations ==
    /\ call.n < MaxCalls
    /\ \E provider \in Providers :
         \E out \in {get_portfolio_diversification_recommendations(
                        client, clock, <<"VTI">>, "low", provider)} :
            Return("get_portfolio_diversification_recommendations", <<"VTI">>,
                   provider, out)

ClientNext ==
    \/ Tick
    \/ GetFinancialDataAgent
    \/ GetStockPrice
    \/ GetPerformanceMetrics
    \/ GetEtfOverview
    \/ GetSectorPerformance
    \/ AnalyzeEtfForInvestment
    \/ EvaluatePortfolioSymbols
    \/ FindAlternativeInvestments
    \/ GetPortfolioDiversificationRecommendations

ClientSpec == ClientInit /\ [][ClientNext]_vars

----------------------------------------------------------------------------
(* SeriesSpec: get_performance_metrics and analyze_etf_for_investment on a *)
(* new client with a credential, over daily series of several shapes.      *)

\* The dates of the series the provider answers with.
DateSets ==
    { {0, 30, 90, 180, 365}, {0, 23, 37}, {0, 22, 38, 90}, {0, 27, 33, 97},
      {0, 37, 98}, {5, 35, 95}, {40, 90}, {0}, {} }

\* Which of the five closes of an input a date gets: the one of the last
\* two weeks, or the one of the dates around a period.
Around(date) ==
    IF date < 15 THEN 1 ELSE IF date < 60 THEN 2 ELSE IF date < 135 THEN 3
    ELSE IF date < 270 THEN 4 ELSE 5

\* A series whose closes make the changes of the four periods 2, -1, 3
\* and 18 percent.
WorkedSeries ==
    (0 :> "1580") @@ (30 :> "1549") @@ (90 :> "1596") @@ (180 :> "1534")
        @@ (365 :> "1339")

SeriesInputs ==
    {WorkedSeries} \cup
    { [d \in dates |-> closes[Around(d)]] :
        dates \in DateSets,
        closes \in {"100", "45"}
                   \X {"100", "87", "83", "80", "77", "74", "71", "50", "45",
                       "40", "0", "nan", "abc"}
                   \X {"100", "87", "80", "74", "50", "45", "125", "nan"}
                   \X {"100", "nan"}
                   \X {"100", "87", "80", "125"} }

\* The risk tolerances analyses are asked for; "moderate" is none of the
\* three the code knows.
Tolerances == {"low", "medium", "high", "moderate"}

SeriesInit ==
    /\ NoRun
    /\ client = get_financial_data_agent(TRUE, 1)
    /\ clock = 0
    /\ call = NoCall

MetricsOfSeries ==
    /\ call.n = 0
    /\ \E series \in SeriesInputs :
         \E answer \in {SeriesAnswer("series", "", series)} :
         \E out \in {get_performance_metrics(client, clock, "VTI", [series |-> answer])} :
            Return("get_performance_metrics", <<"metrics", "VTI">>, answer, out)

AnalysisOfSeries ==
    /\ call.n = 0
    /\ \E series \in SeriesInputs, risk_tolerance \in Tolerances :
         \E provider \in {Provider(QuoteAnswer("quote", "100"),
                                   SeriesAnswer("series", "", series),
                                   SectorAnswer("no rank", "", <<>>))} :
         \E out \in {analyze_etf_for_investment(client, clock, "VTI",
                                                risk_tolerance, provider)} :
            Return("analyze_etf_for_investment", <<"VTI", risk_tolerance>>,
                   provider, out)

\* The holdings recommendations are asked for: none, one key sector,
\* the same sector twice, a symbol the lookup does not know, a sector that
\* is no key sector, three and all four of the key sectors.
Holdings ==
    { <<>>, <<"VTI">>, <<"VOO", "VTI">>, <<"QQQ">>, <<"VGT", "BND">>,
      <<"VXUS", "VNQ">>, <<"VNQ", "BND", "VXUS">>, <<"BND", "VTI", "VNQ", "VXUS">> }

RecommendationsOfHoldings ==
    /\ call.n = 0
    /\ \E symbols \in Holdings, risk_tolerance \in Tolerances,
          provider \in Providers :
         \E out \in {get_portfolio_diversification_recommendations(
                        client, clock, symbols, risk_tolerance, provider)} :
            Return("get_portfolio_diversification_recommendations",
                   <<symbols, risk_tolerance>>, provider, out)

SeriesNext ==
    \/ MetricsOfSeries
    \/ AnalysisOfSeries
    \/ RecommendationsOfHoldings

SeriesSpec == SeriesInit /\ [][SeriesNext]_vars

----------------------------------------------------------------------------
(* Properties of the extraction routines (ExtractSpec).                    *)

\* The positions of the braces of a text, and the span the specification
\* speaks of: from the first "{" through the last "}".
OpenPositions(text) == {i \in 1..Len(text) : text[i] = LB}
ClosePositions(text) == {i \in 1..Len(text) : text[i] = RB}
FirstOpen(text) == CHOOSE i \in OpenPositions(text) : \A j \in OpenPositions(text) : i <= j
LastClose(text) == CHOOSE i \in ClosePositions(text) : \A j \in ClosePositions(text) : j <= i

SpanParses(text) ==
    /\ OpenPositions(text) # {}
    /\ ClosePositions(text) # {}
    /\ LastClose(text) > FirstOpen(text)
    /\ json_loads(SubSeq(text, FirstOpen(text), LastClose(text))).ok

SpanValue(text) == json_loads(SubSeq(text, FirstOpen(text), LastClose(text))).val

\* The well-formed JSON objects that occur in a text, as (first, last)
\* positions.
WellFormedObjects(text) ==
    {ij \in (1..Len(text)) \X (1..Len(text)) :
        /\ ij[1] < ij[2]
        /\ text[ij[1]] = LB
        /\ json_loads(SubSeq(text, ij[1], ij[2])).ok}

Guarded == {"InlineExtract", "extract_json_response"}

\* C6: the guarded extraction (workflow.py's inline block, main.py's
\* extract_json_response) parses a reply exactly when the reply has a "{",
\* has a "}" after the first "{", and the text from the first "{" through the
\* last "}" is valid JSON; the result is then that parsed span; in every
\* other case it reports failure (the except branch, or None), and it never
\* raises.
C6_SucceedsExactlyOnParsableSpan ==
    (extract_fn \in Guarded /\ extracted # Pending) =>
        /\ extracted.kind # "raise"
        /\ extracted.parsed <=> SpanParses(response_string)
        /\ extracted.parsed =>
              extracted.kind = "value" /\ extracted.val = SpanValue(response_string)
        /\ ~extracted.parsed =>
              \/ extracted.kind = "error"
              \/ extracted.kind = "value" /\ extracted.val = JNull

C6_ProseBeforeObjectParsed ==
    /\ extract_fn = "extract_json_response"
    /\ extracted.parsed
    /\ response_string[1] = PROSE
    /\ Len(response_string) = MaxLen

\* C7 as stated: whenever a text contains a well-formed JSON object, the
\* extraction returns one, whatever surrounds it.
C7_AnyEmbeddedObjectIsReturned ==
    (extract_fn \in Guarded /\ extracted # Pending
        /\ WellFormedObjects(response_string) # {}) =>
        /\ extracted.parsed
        /\ \E ij \in WellFormedObjects(response_string) :
              extracted.val = json_loads(SubSeq(response_string, ij[1], ij[2])).val

\* C7: a well-formed JSON object in the text is returned when no "{" comes
\* before it and no "}" comes after it; other surrounding text, "}" before
\* the object and "{" after it included, does not matter.
C7_ObjectReturnedWhenNoBraceOutside ==
    (extract_fn \in Guarded /\ extracted # Pending) =>
        \A ij \in WellFormedObjects(response_string) :
            (/\ \A h \in 1..(ij[1] - 1) : response_string[h] # LB
             /\ \A h \in (ij[2] + 1)..Len(response_string) : response_string[h] # RB)
            => /\ extracted.parsed
               /\ extracted.val = json_loads(SubSeq(response_string, ij[1], ij[2])).val

C7_ObjectBetweenStrayBraces ==
    /\ extract_fn = "extract_json_response"
    /\ response_string = <<RB, LB, RB, LB>>
    /\ extracted.parsed
    /\ extracted.val = EmptyObj

----------------------------------------------------------------------------
(* Properties of the orchestrators (Spec).                                 *)

Roles(r) == [i \in 1..Len(r.calls) |-> r.calls[i].role]
Called(r, role) == \E i \in 1..Len(r.calls) : r.calls[i].role = role
CallsTo(r, roles) == {i \in 1..Len(r.calls) : r.calls[i].role \in roles}
IsPrefix(a, b) == Len(a) <= Len(b) /\ \A i \in 1..Len(a) : a[i] = b[i]
Infix(a, b) == \E i \in 0..(Len(b) - Len(a)) : SubSeq(b, i + 1, i + Len(a)) = a
PositionIn(order, x) == CHOOSE i \in 1..Len(order) : order[i] = x

StatedOrder ==
    <<"GoalExtraction", "Retrieval", "Investment", "Risk", "Goal", "Coordination",
      "Enhancement", "Presentation">>

\* The order of the model calls of a run: with STOCK_API_KEY, main_api.py
\* adds the market-data call and the enhancement call.
CodeOrder(r) ==
    IF r.variant = "main_api" /\ r.has_key
    THEN <<"GoalExtraction", "MarketData", "Retrieval", "Investment", "Risk",
           "Goal", "Coordination", "Enhancement", "Presentation">>
    ELSE <<"GoalExtraction", "Retrieval", "Investment", "Risk", "Goal",
           "Coordination", "Presentation">>

Aborting == {"workflow", "main_api"}

\* C1 as stated (the market-data call is left aside): the calls follow the
\* stated order, a call is made only if every earlier reply was extracted,
\* the enhancement reply included, and a stage whose reply is not extracted
\* ends the run.
C1_AbortAtFirstFailureEveryStage ==
    run.variant \in Aborting =>
        LET roles == SelectSeq(Roles(run), LAMBDA x : x # "MarketData")
            extracting == ExtractStages \cup {"Enhancement"}
        IN /\ \A i, j \in 1..Len(roles) :
                i < j => PositionIn(StatedOrder, roles[i]) < PositionIn(StatedOrder, roles[j])
           /\ \A i, j \in 1..Len(roles) :
                (i < j /\ roles[i] \in extracting) => roles[i] \in run.parsed
           /\ (roles # <<>> /\ roles[Len(roles)] \in extracting
                 /\ roles[Len(roles)] \notin run.parsed) => run.pc = "failed"

\* C1: in workflow.py and main_api.py the model calls are a prefix of
\* GoalExtraction, (MarketData), Retrieval, Investment, Risk, Goal,
\* Coordination, (Enhancement), Presentation, the bracketed two made only
\* by main_api.py with STOCK_API_KEY; a call is made only if the reply of
\* every earlier stage from GoalExtraction to Coordination was extracted, and
\* the first of these six whose reply is not extracted ends the run with a
\* failure result (None; HTTP 500) and no later call.
C1_AbortAtFirstFailureUpToCoordination ==
    run.variant \in Aborting =>
        LET roles == Roles(run) IN
        /\ IsPrefix(roles, CodeOrder(run))
        /\ \A i, j \in 1..Len(roles) :
             (i < j /\ roles[i] \in ExtractStages) => roles[i] \in run.parsed
        /\ (roles # <<>> /\ roles[Len(roles)] \in ExtractStages
              /\ roles[Len(roles)] \notin run.parsed) => run.pc = "failed"
        /\ (run.pc = "failed" /\ run.variant = "main_api") =>
              /\ fb.state = "none" => http.status = 500
              /\ run.rec_id \notin DOMAIN recommendations

C1_RunEndedAtRiskReply ==
    /\ run.variant = "main_api"
    /\ run.pc = "failed"
    /\ run.calls # <<>>
    /\ run.calls[Len(run.calls)].role = "Risk"
    /\ "Risk" \notin run.parsed

Joining == {"workflow", "workflow1", "main", "main_api"}

\* The coordinator's prompt carries the goal, the retrieval output and the
\* three vote sets the run holds.
CoordinatorPromptCarries(r, prompt) ==
    /\ prompt.goal = json_dumps(r.structured_goal)
    /\ prompt.options = json_dumps(r.investment_options)
    /\ \A stage \in Specialists :
         \E i \in 1..Len(prompt.votes) :
            Infix(json_dumps(r[StageField(stage)]), prompt.votes[i])

\* C2 as stated: in the four variants the coordinator is called only with
\* all three specialist replies extracted, and its prompt carries them.
C2_CoordinatorOnlyAfterThreeVotes ==
    run.variant \in Joining =>
        \A i \in CallsTo(run, {"Coordination"}) :
            /\ Specialists \subseteq run.parsed
            /\ CoordinatorPromptCarries(run, run.calls[i].prompt)

\* C2: in workflow.py, workflow1.py and main_api.py the coordinator is
\* called only after all three specialist replies were extracted; in
\* main.py it is called whatever came of them, a reply that was not
\* extracted standing in the prompt as null.  In all four the prompt carries
\* the goal, the retrieval output and the three vote values.
C2_CoordinatorJoinExceptMain ==
    run.variant \in Joining =>
        \A i \in CallsTo(run, {"Coordination"}) :
            /\ run.variant # "main" => Specialists \subseteq run.parsed
            /\ run.variant = "main" =>
                 \A stage \in Specialists \ run.parsed : run[StageField(stage)] = JNull
            /\ CoordinatorPromptCarries(run, run.calls[i].prompt)

C2_CoordinatorCalledWithNullVotes ==
    /\ run.variant = "main"
    /\ Called(run, "Coordination")
    /\ "Risk" \notin run.parsed
    /\ "Investment" \in run.parsed
    /\ run.calls[Len(run.calls)].prompt.votes[2] = <<NULLTOK>>

Continuing == {"main", "main1"}

\* The stage after a stage in main.py and main1.py (main1.py ends with the
\* coordinator).
StageAfter(r, stage) ==
    CASE stage = "GoalExtraction" -> "Retrieval"
      [] stage = "Retrieval" -> "Investment"
      [] stage = "Investment" -> "Risk"
      [] stage = "Risk" -> "Goal"
      [] stage = "Goal" -> "Coordination"
      [] stage = "Coordination" -> IF r.variant = "main1" THEN "done" ELSE "Presentation"

\* The replies of a run that were received and not parsed: every call of an
\* extracting stage but the one an exception cut short.
Unparsed(r) ==
    {i \in CallsTo(r, ExtractStages) :
        /\ r.calls[i].role \notin r.parsed
        /\ ~(r.pc = "raised" /\ i = Len(r.calls))}

ContinuesAfter(r, i) ==
    IF i < Len(r.calls)
    THEN r.calls[i + 1].role = StageAfter(r, r.calls[i].role)
    ELSE r.pc = StageAfter(r, r.calls[i].role)

\* C3 as stated: in main.py and main1.py a reply from which no JSON is
\* extracted makes the stage's output {} and the run goes on.
C3_FailedStageYieldsEmptyObject ==
    run.variant \in Continuing =>
        \A i \in Unparsed(run) :
            /\ run[StageField(run.calls[i].role)] = EmptyObj
            /\ ContinuesAfter(run, i)

\* C3: a reply from which no JSON is extracted makes the stage's output
\* None (null in the later prompts) in main.py and the empty object {} in
\* main1.py, and in both the run goes on with the next stage.
C3_FailedStageYieldsNoneOrEmptyObject ==
    run.variant \in Continuing =>
        \A i \in Unparsed(run) :
            /\ run[StageField(run.calls[i].role)] =
                  IF run.variant = "main" THEN JNull ELSE EmptyObj
            /\ ContinuesAfter(run, i)

C3_RunWentOnAfterTwoFailures ==
    /\ run.variant = "main"
    /\ run.pc = "done"
    /\ run.parsed = ExtractStages \ {"GoalExtraction", "Risk"}
    /\ run.structured_goal = JNull

\* The prompts that carry the Goal.
GoalCarriers == {"Retrieval", "Investment", "Risk", "Goal", "Coordination"}

\* C5 as stated: in workflow.py and main_api.py the Goal in the prompts and
\* in the result is the value extracted from the goal-extraction reply.
C5_GoalIsTheExtractedValue ==
    (run.variant \in Aborting /\ run.extracted_goal # Unset) =>
        /\ run.structured_goal = run.extracted_goal
        /\ \A i \in CallsTo(run, GoalCarriers) :
              run.calls[i].prompt.goal = json_dumps(run.extracted_goal)
        /\ (run.variant = "main_api" /\ run.pc = "done") =>
              recommendations[run.rec_id].structured_goal = run.extracted_goal

\* The text main_api.py puts for the request's numbers.
RiskText(request) ==
    CASE request.risk_tolerance = 1 -> "low"
      [] request.risk_tolerance = 2 -> "medium"
      [] OTHER -> "high"
HorizonText(request) ==
    CASE request.investment_horizon < 10 -> "short-term"
      [] request.investment_horizon \in 10..20 -> "medium-term"
      [] OTHER -> "long-term"

\* The Goal of a run, given the value extracted from the reply.
IsGoalOf(r, goal) ==
    IF r.variant = "workflow" THEN goal = r.extracted_goal
    ELSE /\ goal.t = "o"
         /\ DictGet(goal.m, "risk_tolerance", Unset) = JStr(RiskText(r.request))
         /\ DictGet(goal.m, "investment_horizon", Unset) = JStr(HorizonText(r.request))
         /\ \A k \in Keys \ {"risk_tolerance", "investment_horizon"} :
               DictGet(goal.m, k, Unset) = DictGet(r.extracted_goal.m, k, Unset)

\* C5: in workflow.py the Goal is the value extracted from the
\* goal-extraction reply; in main_api.py it is that value with risk_tolerance
\* and investment_horizon overwritten by the request's values.  From then on
\* it is not modified: the retrieval, specialist and coordinator prompts and
\* the run result carry it.
C5_GoalFixedOnceOverridden ==
    (run.variant \in Aborting /\ run.extracted_goal # Unset) =>
        /\ IsGoalOf(run, run.structured_goal)
        /\ \A i \in CallsTo(run, GoalCarriers) :
              run.calls[i].prompt.goal = json_dumps(run.structured_goal)
        /\ (run.variant = "main_api" /\ run.pc = "done") =>
              recommendations[run.rec_id].structured_goal = run.structured_goal

C5_ResultGoalDiffersFromExtracted ==
    /\ run.variant = "main_api"
    /\ run.pc = "done"
    /\ recommendations[run.rec_id].structured_goal # run.extracted_goal
    /\ HasKey(run.extracted_goal.m, "risk_tolerance")

\* The default FeedbackAnalysis of the specification.
DefaultAnalysis ==
    [t |-> "o",
     m |-> << [k |-> "feedback_analysis",
               v |-> [t |-> "s", s |-> "Unable to analyze feedback properly."]],
              [k |-> "risk_adjustment", v |-> [t |-> "s", s |-> "no change"]],
              [k |-> "preference_changes", v |-> [t |-> "a", a |-> <<>>]],
              [k |-> "strategy_adjustments", v |-> [t |-> "a", a |-> <<>>]] >>]

\* The neutral content of an analysis: "no change" and empty lists.
IsNeutral(analysis) ==
    /\ analysis.t = "o"
    /\ DictGet(analysis.m, "risk_adjustment", Unset) = JStr("no change")
    /\ DictGet(analysis.m, "preference_changes", Unset) = JArr(<<>>)
    /\ DictGet(analysis.m, "strategy_adjustments", Unset) = JArr(<<>>)

FeedbackFailed == fb.state \in {"returned", "raised"} /\ ~SpanParses(fb.reply)

\* C8: workflow.py process_feedback makes one model call, to the feedback
\* agent; when the reply has no braces or its braced span is not valid JSON
\* it returns exactly the default analysis; it never raises.
C8_WorkflowFeedbackDefault ==
    (run.variant = "workflow" /\ fb.state # "none") =>
        /\ Len(fb.calls) = 1
        /\ fb.calls[1].role = "Feedback"
        /\ fb.state = "returned"
        /\ FeedbackFailed => fb.analysis = DefaultAnalysis
        /\ ~FeedbackFailed => fb.analysis = SpanValue(fb.reply)

C8_DefaultAfterMalformedSpan ==
    /\ run.variant = "workflow"
    /\ fb.state = "returned"
    /\ fb.reply = <<LB, PROSE, RB>>
    /\ fb.analysis = DefaultAnalysis

\* C9 as stated: in workflow1.py and main.py a feedback reply that cannot
\* be extracted yields the default analysis, not an exception or None.
C9_OtherVariantsFeedbackDefault ==
    (run.variant \in {"workflow1", "main"} /\ FeedbackFailed) =>
        /\ fb.state = "returned"
        /\ fb.analysis = DefaultAnalysis

\* C10 as stated: a feedback request for a stored id whose reply cannot be
\* extracted is answered with the neutral default analysis, not an error.
C10_HttpFeedbackAnsweredWithDefault ==
    (run.variant = "main_api" /\ fb.id \in DOMAIN recommendations /\ FeedbackFailed) =>
        /\ http.status = 200
        /\ IsNeutral(http.body)

----------------------------------------------------------------------------
(* A property of two runs (PairSpec).                                      *)

\* C4: two runs that got the same goal-extraction, market-data and
\* retrieval replies and different specialist replies send the same prompt
\* to each specialist; the prompt is made of the Goal, the retrieval output
\* and, in main_api.py, the market-data text, and holds no votes.
C4_SpecialistPromptsAgree ==
    /\ \A i \in CallsTo(run, Specialists), j \in CallsTo(run2, Specialists) :
          run.calls[i].role = run2.calls[j].role
             => run.calls[i].prompt = run2.calls[j].prompt
    /\ \A i \in CallsTo(run, Specialists) :
          /\ run.calls[i].prompt.goal = json_dumps(run.structured_goal)
          /\ run.calls[i].prompt.options = json_dumps(run.investment_options)
          /\ run.calls[i].prompt.insights = run.financial_insights
          /\ run.calls[i].prompt.votes = <<>>
          /\ run.calls[i].prompt.strategy = <<>>

C4_SameGoalPromptAfterDifferentVotes ==
    /\ run.variant = "main_api"
    /\ Called(run, "Goal")
    /\ Called(run2, "Goal")
    /\ run.investment_votes # run2.investment_votes
    /\ run.financial_insights # <<>>

----------------------------------------------------------------------------
(* C11: in main_api.py the store of recommendations and the feedback       *)
(* model call.                                                             *)

StoredIds == DOMAIN recommendations

\* The step is a POST /api/process-feedback (fb is only written there and
\* reset by the next generate-strategy request).
FeedbackStep == fb' # fb /\ fb'.state # "none"

\* C11: in the HTTP variant an id enters the store only in the step in
\* which the run that carries it reaches "done", and no id ever leaves it;
\* a feedback request makes its model call only for a stored id, and one
\* for any other id makes no model call, is answered 404 and leaves the
\* store as it was.
C11_FeedbackCallOnlyForStoredId ==
    [][ run.variant = "main_api" =>
          /\ StoredIds \subseteq DOMAIN recommendations'
          /\ \A id \in DOMAIN recommendations' \ StoredIds :
                /\ run.pc \notin {"done", "failed"}
                /\ run'.pc = "done"
                /\ run'.rec_id = id
          /\ FeedbackStep =>
                IF fb'.id \in StoredIds
                THEN /\ Len(fb'.calls) = 1
                     /\ fb'.calls[1].role = "Feedback"
                ELSE /\ fb'.calls = <<>>
                     /\ http'.status = 404
                     /\ recommendations' = recommendations ]_vars

\* A run was stored, and a feedback request for another id was turned away
\* without a model call.
C11_UnknownIdAfterStoredRun ==
    /\ run.variant = "main_api"
    /\ StoredIds # {}
    /\ fb.state = "not found"
    /\ fb.id \notin StoredIds
    /\ fb.calls = <<>>
    /\ http.status = 404

----------------------------------------------------------------------------
(* Properties of the Alpha Vantage client and the tools (ClientSpec).      *)

\* The step is a call of op on the tools.
CallStep(op) == call'.n = call.n + 1 /\ call'.op = op

\* The step is a get_stock_price that follows a get_stock_price for the
\* same symbol on the same client by less than an hour.
QuotedAgainWithinTheHour ==
    /\ CallStep("get_stock_price")
    /\ call.op = "get_stock_price"
    /\ call'.key = call.key
    /\ call'.instance = call.instance
    /\ call'.at - call.at < QuoteTTL

\* C12 as stated: two get_stock_price calls for one symbol on one client,
\* the second less than an hour after the first, make exactly one provider
\* request between them.
C12_TwoQuotesOneRequest ==
    [][QuotedAgainWithinTheHour => call.sent + call'.sent = 1]_vars

\* C12: of two such calls on a client with a credential, the second makes
\* no request and returns the first one's quote when the first made a
\* request and got a quote; when the first ended in an error both make a
\* request; without a credential neither makes one.
C12_SecondQuoteFromCacheAfterStoredFirst ==
    [][QuotedAgainWithinTheHour =>
          CASE ~client.api_key -> call.sent = 0 /\ call'.sent = 0
            [] IsError(call.result) -> call.sent = 1 /\ call'.sent = 1
            [] call.sent = 1 -> call'.sent = 0 /\ call'.result = call.result
            [] OTHER -> call'.sent <= 1]_vars

\* The second call on a client was a get_stock_price answered from the
\* entry the first had stored less than an hour before.
C12_QuoteServedFromCache ==
    /\ client.api_key
    /\ call.n = 2
    /\ call.op = "get_stock_price"
    /\ call.sent = 0
    /\ ~IsError(call.result)
    /\ call.key \in DOMAIN client.cache
    /\ call.at - client.cache[call.key].timestamp < QuoteTTL
    /\ call.at > client.cache[call.key].timestamp

\* The four fetch operations, the kind of cache key and the time to live
\* C13 gives each.
FetchOps ==
    [get_stock_price |-> [key |-> "price", ttl |-> 1 * Hour],
     get_performance_metrics |-> [key |-> "metrics", ttl |-> 6 * Hour],
     get_etf_overview |-> [key |-> "overview", ttl |-> 24 * Hour],
     get_sector_performance |-> [key |-> "sector_performance", ttl |-> 6 * Hour]]

\* The client holds an entry for the key that is younger than ttl.
Fresh(key, ttl) ==
    /\ key \in DOMAIN client.cache
    /\ clock - client.cache[key].timestamp < ttl

\* C13: a fetch on a client with a credential makes no request, returns
\* the stored value and leaves the client as it is when the entry of its
\* key is younger than its time to live; it makes exactly one request when
\* there is no entry or the entry has reached the time to live (a result
\* then being stored under the key with the time of the call); no fetch
\* makes more than one request.
C13_OneRequestUnlessFresh ==
    [][\A op \in DOMAIN FetchOps :
          CallStep(op) /\ client.api_key =>
             /\ call'.key[1] = FetchOps[op].key
             /\ call'.sent <= 1
             /\ IF Fresh(call'.key, FetchOps[op].ttl)
                THEN /\ call'.sent = 0
                     /\ call'.result = client.cache[call'.key].data
                     /\ client' = client
                ELSE /\ call'.sent = 1
                     /\ ~IsError(call'.result) =>
                           /\ call'.key \in DOMAIN client'.cache
                           /\ client'.cache[call'.key] =
                                 [timestamp |-> clock, data |-> call'.result]]_vars

\* A get_performance_metrics met an entry exactly six hours old, made its
\* request and failed, so that the old entry is still there.
C13_RequestAtExactlyTheTTL ==
    /\ client.api_key
    /\ call.op = "get_performance_metrics"
    /\ call.sent = 1
    /\ IsError(call.result)
    /\ call.key \in DOMAIN client.cache
    /\ call.at - client.cache[call.key].timestamp = MetricsTTL

\* C14 as stated: the cache is one store for the process: a value stored
\* by a fetch that made its request and succeeded is served, without a
\* request, to the next fetch of the same key made within the time to
\* live, whichever stage of whichever run makes it.
C14_CacheServesLaterStages ==
    [][\A op \in DOMAIN FetchOps :
          /\ CallStep(op) /\ client.api_key
          /\ call.op = op /\ call'.key = call.key
          /\ call.sent = 1 /\ ~IsError(call.result)
          /\ call'.at - call.at < FetchOps[op].ttl
          => call'.sent = 0 /\ call'.result = call.result]_vars

\* The tools without a credential.
NoCredential == ~client.api_key /\ call.n > 0

NoKeyError == "API key not set"

\* C15 as stated: without a credential every operation makes no request
\* and its result is the error "API key not set".
C15_EveryOperationReturnsTheKeyError ==
    NoCredential =>
        /\ call.sent = 0
        /\ IsError(call.result)
        /\ call.result.error = NoKeyError

\* C15: without a credential no operation makes a request or touches the
\* cache.  The four fetches return the error "API key not set" and
\* analyze_etf_for_investment returns it with the symbol;
\* evaluate_portfolio_symbols returns its report, every symbol's entry
\* carrying the error and the aggregates being zero;
\* find_alternative_investments returns the empty list;
\* get_portfolio_diversification_recommendations returns its
\* recommendations, without the top sectors and without an error.
C15_NoRequestWithoutCredential ==
    NoCredential =>
        /\ call.sent = 0
        /\ DOMAIN client.cache = {}
        /\ ~IsRaised(call.result)
        /\ call.op \in DOMAIN FetchOps => call.result = [error |-> NoKeyError]
        /\ call.op = "analyze_etf_for_investment" =>
              call.result = [symbol |-> call.key[1], error |-> NoKeyError]
        /\ call.op = "evaluate_portfolio_symbols" =>
              /\ ~IsError(call.result)
              /\ \A i \in 1..Len(call.key) :
                    call.result.symbol_evaluations[call.key[i]] =
                        [symbol |-> call.key[i], error |-> NoKeyError]
              /\ call.result.portfolio_metrics =
                    [total_symbols |-> Len(call.key), valid_symbols |-> 0,
                     avg_volatility |-> 0, risk_match_percentage |-> 0,
                     diversification_score |-> 0]
        /\ call.op = "find_alternative_investments" =>
              call.result = [alternatives |-> <<>>]
        /\ call.op = "get_portfolio_diversification_recommendations" =>
              /\ DOMAIN call.result =
                    {"missing_sectors", "sector_allocation", "suggested_additions"}
              /\ Len(call.result.suggested_additions) =
                    Len(call.result.missing_sectors)

\* evaluate_portfolio_symbols returned a report, and no error, from tools
\* without a credential.
C15_ReportWithoutCredential ==
    /\ NoCredential
    /\ call.op = "evaluate_portfolio_symbols"
    /\ call.sent = 0
    /\ ~IsError(call.result)
    /\ call.result.portfolio_metrics.valid_symbols = 0
    /\ call.result.portfolio_metrics.total_symbols = 2

\* C16 as stated: whatever the provider answers, the four fetches and
\* analyze_etf_for_investment return a result or an error and never raise.
C16_FetchesAndAnalysisNeverRaise ==
    call.op \in DOMAIN FetchOps \cup {"analyze_etf_for_investment"} =>
        ~IsRaised(call.result)

\* The fields of the dict analyze_etf_for_investment returns.
AnalysisFields ==
    {"symbol", "current_price", "performance", "risk_score", "volatility",
     "risk_match", "recommendation"}

\* No period of a performance map has a value.
NoPeriodValued(performance) ==
    \A i \in DOMAIN performance : "price_change_percent" \notin DOMAIN performance[i]

\* C18 as stated: analyze_etf_for_investment returns an error exactly when
\* get_performance_metrics returned one, or get_stock_price returned one,
\* or no period has a value; the error is the one of
\* get_performance_metrics when both failed; in every other case it
\* returns the full analysis, without an error.
C18_AnalysisErrorIffAFetchFailedOrNoValue ==
    [][CallStep("analyze_etf_for_investment") =>
        \E m \in {get_performance_metrics(client, clock, call'.key[1], call'.input)} :
        \E p \in {get_stock_price(m.client, clock, call'.key[1], call'.input)} :
            IF \/ IsError(m.result) \/ IsError(p.result)
               \/ NoPeriodValued(m.result.performance)
            THEN /\ IsError(call'.result)
                 /\ IsError(m.result) /\ IsError(p.result) =>
                        call'.result.error = m.result.error
            ELSE /\ ~IsRaised(call'.result)
                 /\ DOMAIN call'.result = AnalysisFields]_vars

----------------------------------------------------------------------------
(* Properties of the performance metrics and the analysis (SeriesSpec).    *)

\* The horizons of C17, in days, in the order of the performance map.
Horizons == <<30, 90, 180, 365>>

Distance(date, days) == IF date > days THEN date - days ELSE days - date

\* The least distance of a date of the series to the target of a horizon.
LeastDistance(dates, days) ==
    CHOOSE m \in {Distance(d, days) : d \in dates} :
        \A d \in dates : m <= Distance(d, days)

\* The date C17 has picked: the latest of the dates at the least distance
\* (the first of them when the dates are gone through latest first).
Picked(dates, days) ==
    CHOOSE d \in dates :
        /\ Distance(d, days) = LeastDistance(dates, days)
        /\ \A e \in dates : Distance(e, days) = LeastDistance(dates, days) => d <= e

\* A close the code can work with: a number, zero only for the latest date.
Usable(text, zero_allowed) ==
    \/ text = "nan"
    \/ text \in DOMAIN Numerals /\ (zero_allowed \/ Numerals[text] # 0)

\* C17: get_performance_metrics on a new client succeeds exactly when the
\* series has a date, the latest close is a number and so is, and not
\* zero, the close of the date picked for every horizon within 7 days of
\* its target; a horizon further away does not make it fail.  When it
\* succeeds, every horizon whose picked date (the latest of the dates
\* nearest to the target) is at most 7 days from the target has a value
\* with that date as reference date, and every other horizon has an error.
C17_NearestDateWithinSevenDays ==
    call.op = "get_performance_metrics" =>
        LET series == call.input.series
            dates == DOMAIN series
            latest == CHOOSE d \in dates : \A e \in dates : d <= e
        IN  /\ ~IsError(call.result) <=>
                  /\ dates # {}
                  /\ Usable(series[latest], TRUE)
                  /\ \A i \in 1..4 :
                        LeastDistance(dates, Horizons[i]) <= 7 =>
                            Usable(series[Picked(dates, Horizons[i])], FALSE)
            /\ ~IsError(call.result) =>
                  \A i \in 1..4 :
                     LET entry == call.result.performance[i]
                     IN  IF LeastDistance(dates, Horizons[i]) <= 7
                         THEN /\ "price_change_percent" \in DOMAIN entry
                              /\ entry.reference_date = Picked(dates, Horizons[i])
                         ELSE DOMAIN entry = {"error"}

\* Two dates are equally near the one-month target and the later one was
\* picked; the six-month horizon has an error and the call succeeded.
C17_LaterOfTwoEquallyNearDates ==
    /\ call.op = "get_performance_metrics"
    /\ ~IsError(call.result)
    /\ {27, 33} \subseteq DOMAIN call.input.series
    /\ call.result.performance[1].reference_date = 27
    /\ call.result.performance[2].reference_date = 97
    /\ IsError(call.result.performance[3])

\* An analysis that was returned.
Analysed ==
    /\ call.op = "analyze_etf_for_investment"
    /\ ~IsError(call.result)
    /\ ~IsRaised(call.result)

\* The numbers among the values of the periods of a performance map.
Values(performance) ==
    {performance[i].price_change_percent.v :
        i \in {j \in DOMAIN performance :
                  /\ "price_change_percent" \in DOMAIN performance[j]
                  /\ ~performance[j].price_change_percent.nan}}

Valued(performance) ==
    {i \in DOMAIN performance : "price_change_percent" \in DOMAIN performance[i]}

\* The integers nearest to volatility / 5 (the volatility in hundredths),
\* brought into 1..10.
NearestClamped(volatility) ==
    {IF k < 1 THEN 1 ELSE IF k > 10 THEN 10 ELSE k :
        k \in {j \in 0..(volatility \div 500 + 1) :
                  /\ 2 * (500 * j - volatility) <= 500
                  /\ 2 * (volatility - 500 * j) <= 500}}

\* C19: in an analysis that was returned the volatility is the largest
\* minus the smallest value of the periods and is not negative; the risk
\* score is an integer nearest to volatility / 5 brought into 1..10; it is
\* 1 when one period has a value, 10 from a volatility of 50 percent on,
\* and no smaller volatility has a higher score.
C19_RiskScoreIsRoundedClampedVolatility ==
    Analysed =>
        LET values == Values(call.result.performance)
            volatility == call.result.volatility
            score == call.result.risk_score
        IN  /\ \E hi \in values, lo \in values :
                  /\ \A v \in values : lo <= v /\ v <= hi
                  /\ volatility = hi - lo
            /\ volatility >= 0
            /\ score \in 1..10
            /\ score \in NearestClamped(volatility)
            /\ Cardinality(Valued(call.result.performance)) = 1 => score = 1
            /\ volatility >= 5000 => score = 10
            /\ \A k \in 0..(volatility \div 50) : risk_score(50 * k) <= score

\* An analysis with a volatility of 12.5 percent, halfway between the
\* scores 2 and 3.
C19_VolatilityHalfwayBetweenScores ==
    /\ Analysed
    /\ call.result.volatility = 1250
    /\ call.result.risk_score = 2
    /\ Cardinality(Valued(call.result.performance)) >= 2

\* C20 as stated: risk_match is true exactly for "low" with a score up to
\* 4, "medium" with a score above 4 and up to 7, and "high" with a score
\* above 6.
C20_MediumMatchesAboveFour ==
    Analysed =>
        LET tolerance == call.key[2]
            score == call.result.risk_score
        IN  call.result.risk_match <=>
                \/ tolerance = "low" /\ score <= 4
                \/ tolerance = "medium" /\ 4 < score /\ score <= 7
                \/ tolerance = "high" /\ score > 6

\* C20: risk_match is true exactly for "low" with a score up to 4,
\* "medium" with a score above 3 and up to 7, and "high" with a score
\* above 6; it is false for every other tolerance.
C20_MediumMatchesAboveThree ==
    Analysed =>
        LET tolerance == call.key[2]
            score == call.result.risk_score
        IN  /\ score \in 1..10
            /\ call.result.risk_match <=>
                \/ tolerance = "low" /\ score <= 4
                \/ tolerance = "medium" /\ 3 < score /\ score <= 7
                \/ tolerance = "high" /\ score > 6
            /\ \A s \in 1..10 :
                  risk_match(tolerance, s) <=>
                     \/ tolerance = "low" /\ s <= 4
                     \/ tolerance = "medium" /\ 3 < s /\ s <= 7
                     \/ tolerance = "high" /\ s > 6

\* An analysis for "medium" with the score 4, and a match.
C20_MediumMatchesScoreFour ==
    /\ Analysed
    /\ call.key[2] = "medium"
    /\ call.result.risk_score = 4
    /\ call.result.risk_match

\* The analysis of the data of the call on a client of its own, for
\* another risk tolerance.
AnalysisFor(risk_tolerance) ==
    analyze_etf_for_investment(get_financial_data_agent(TRUE, 1), 0, "VTI",
                               risk_tolerance, call.input).result

\* C21: data whose analysis has the risk score 4 match both "low" and
\* "medium": the analyses of the same data for the two tolerances both
\* have risk_match true (and the score 4).
C21_ScoreFourMatchesLowAndMedium ==
    Analysed /\ call.result.risk_score = 4 =>
        /\ AnalysisFor("low").risk_score = 4
        /\ AnalysisFor("low").risk_match
        /\ AnalysisFor("medium").risk_score = 4
        /\ AnalysisFor("medium").risk_match
        /\ call.key[2] \in {"low", "medium"} => call.result.risk_match

\* An analysis for "low" with the score 4, and a match.
C21_LowMatchesScoreFour ==
    /\ Analysed
    /\ call.key[2] = "low"
    /\ call.result.risk_score = 4
    /\ call.result.risk_match

\* The analysis of the series whose changes are 2, -1, 3 and 18 percent,
\* for "low".
WorkedAnalysis ==
    /\ Analysed
    /\ call.input.series.series = WorkedSeries
    /\ call.key[2] = "low"

Changes(performance) == [i \in 1..4 |-> performance[i].price_change_percent.v]

\* C22 as stated: on the changes 2, -1, 3 and 18 percent the analysis for
\* "low" has volatility 4, risk score 1, a match and "buy".
C22_WorkedVolatilityFour ==
    WorkedAnalysis =>
        /\ Changes(call.result.performance) = <<200, -100, 300, 1800>>
        /\ call.result.volatility = 400
        /\ call.result.risk_score = 1
        /\ call.result.risk_match
        /\ call.result.recommendation = "buy"

\* C22: on the changes 2, -1, 3 and 18 percent the analysis for "low" has
\* volatility 19 (18 - (-1)), risk score 4 (round(19 / 5)), a match and
\* "buy".
C22_WorkedVolatilityNineteen ==
    WorkedAnalysis =>
        /\ Changes(call.result.performance) = <<200, -100, 300, 1800>>
        /\ call.result.volatility = 1900
        /\ call.result.risk_score = 4
        /\ call.result.risk_match
        /\ call.result.recommendation = "buy"

\* The worked analysis was made and says "buy".
C22_WorkedAnalysisBuys ==
    /\ WorkedAnalysis
    /\ call.result.volatility = 1900
    /\ call.result.recommendation = "buy"

\* C23: in an analysis that was returned the recommendation is "buy"
\* exactly when the 1yr period has a value above 15 and risk_match is
\* true, "avoid" exactly when it has a value below -10, and "hold"
\* otherwise (an error in the 1yr period, the value 0, a value above 15
\* without a match).
C23_RecommendationFromYearAndMatch ==
    Analysed =>
        LET year == call.result.performance[4]
            valued == /\ "price_change_percent" \in DOMAIN year
                      /\ ~year.price_change_percent.nan
            result == call.result.recommendation
        IN  /\ result \in {"buy", "avoid", "hold"}
            /\ result = "buy" <=>
                  /\ valued
                  /\ year.price_change_percent.v > 1500
                  /\ call.result.risk_match
            /\ result = "avoid" <=>
                  valued /\ year.price_change_percent.v < -1000
            /\ IsError(year) => result = "hold"
            /\ valued /\ year.price_change_percent.v = 0 => result = "hold"

\* An analysis with a 1yr value above 15 and no match, which says "hold".
C23_HoldAboveFifteenWithoutMatch ==
    /\ Analysed
    /\ "price_change_percent" \in DOMAIN call.result.performance[4]
    /\ ~call.result.performance[4].price_change_percent.nan
    /\ call.result.performance[4].price_change_percent.v > 1500
    /\ ~call.result.risk_match
    /\ call.result.recommendation = "hold"

----------------------------------------------------------------------------
(* Properties of the portfolio tools (ClientSpec).                         *)

\* A report of evaluate_portfolio_symbols: the call returned.
Evaluated ==
    /\ call.op = "evaluate_portfolio_symbols"
    /\ ~IsRaised(call.result)

RECURSIVE SumSeq(_)
SumSeq(xs) == IF xs = <<>> THEN 0 ELSE Head(xs) + SumSeq(Tail(xs))

Abs(x) == IF x < 0 THEN -x ELSE x

\* q is num / den rounded to a nearest integer.
Rounded(q, num, den) == 2 * Abs(den * q - num) <= den

\* The symbols of the list, one for every time it is asked for, whose
\* analysis in the report has no error.
ValidOf(symbols, evaluations) ==
    SelectSeq(symbols, LAMBDA s : ~IsError(evaluations[s]))

\* C24: the report has the analysis or the error of every symbol asked
\* for, and its aggregates are over the analyses without an error:
\* valid_symbols is their number, avg_volatility the mean of their
\* volatilities, risk_match_percentage the share of them with a match,
\* diversification_score the smaller of 10 and their number; with none
\* of them the four aggregates are 0.
C24_AggregatesOverValidAnalyses ==
    Evaluated =>
        LET symbols == call.key
            evaluations == call.result.symbol_evaluations
            metrics == call.result.portfolio_metrics
            valid == ValidOf(symbols, evaluations)
            n == Len(valid)
            volatilities == [i \in 1..n |-> evaluations[valid[i]].volatility]
            matches == SelectSeq(valid, LAMBDA s : evaluations[s].risk_match)
        IN  /\ DOMAIN evaluations = {symbols[i] : i \in 1..Len(symbols)}
            /\ metrics.total_symbols = Len(symbols)
            /\ metrics.valid_symbols = n
            /\ n > 0 =>
                  /\ Rounded(metrics.avg_volatility, SumSeq(volatilities), n)
                  /\ Rounded(metrics.risk_match_percentage,
                             10000 * Len(matches), n)
                  /\ metrics.diversification_score = IF n < 10 THEN n ELSE 10
            /\ n = 0 =>
                  /\ metrics.avg_volatility = 0
                  /\ metrics.risk_match_percentage = 0
                  /\ metrics.diversification_score = 0

\* A report on two symbols of which one has an analysis with a match and
\* the other an error: the aggregates are those of the one.
C24_OneValidOneErrored ==
    /\ Evaluated
    /\ call.key = <<"VTI", "BND">>
    /\ ~IsError(call.result.symbol_evaluations["VTI"])
    /\ IsError(call.result.symbol_evaluations["BND"])
    /\ call.result.portfolio_metrics.valid_symbols = 1
    /\ call.result.portfolio_metrics.risk_match_percentage = 10000
    /\ call.result.portfolio_metrics.diversification_score = 1

\* C30 as stated: valid_symbols is the number of entries of
\* symbol_evaluations without an error, total_symbols the number of its
\* entries, valid_symbols <= total_symbols, and risk_match_percentage is
\* between 0 and 100, also for a list that repeats a symbol.
C30_AggregatesAgreeWithReport ==
    Evaluated =>
        LET evaluations == call.result.symbol_evaluations
            metrics == call.result.portfolio_metrics
        IN  /\ metrics.valid_symbols =
                  Cardinality({s \in DOMAIN evaluations : ~IsError(evaluations[s])})
            /\ metrics.valid_symbols <= metrics.total_symbols
            /\ metrics.total_symbols = Cardinality(DOMAIN evaluations)
            /\ metrics.risk_match_percentage \in 0..10000

----------------------------------------------------------------------------
(* Properties of the diversification recommendations (SeriesSpec).         *)

\* Recommendations were returned for the holdings call.key[1].
Recommended ==
    /\ call.op = "get_portfolio_diversification_recommendations"
    /\ ~IsRaised(call.result)

\* The symbols the static lookup maps to a key sector.
SymbolsOf(sector) ==
    CASE sector = "US Stocks" -> {"VTI", "VOO"}
      [] sector = "International Stocks" -> {"VXUS"}
      [] sector = "US Bonds" -> {"BND"}
      [] sector = "Real Estate" -> {"VNQ"}

KeySectors == {"US Stocks", "International Stocks", "US Bonds", "Real Estate"}

\* The place of a key sector in the order of the key sectors.
Place(sector) ==
    CASE sector = "US Stocks" -> 1
      [] sector = "International Stocks" -> 2
      [] sector = "US Bonds" -> 3
      [] sector = "Real Estate" -> 4

\* missing_sectors has, once each and in the order of the key sectors,
\* the key sectors no held symbol maps to, and suggested_additions has one
\* entry for each of them in the same order.
MissingAndAdditions ==
    LET symbols == call.key[1]
        held == {symbols[i] : i \in 1..Len(symbols)}
        missing == call.result.missing_sectors
        additions == call.result.suggested_additions
    IN  /\ {missing[i] : i \in 1..Len(missing)} =
              {k \in KeySectors : SymbolsOf(k) \cap held = {}}
        /\ \A i, j \in 1..Len(missing) : i < j => Place(missing[i]) < Place(missing[j])
        /\ Len(additions) = Len(missing)
        /\ \A i \in 1..Len(missing) : additions[i].sector = missing[i]

\* The recommendations for the same holdings and provider answers and
\* another risk tolerance, on a client of its own.
RecommendationsFor(risk_tolerance) ==
    get_portfolio_diversification_recommendations(
        get_financial_data_agent(TRUE, 1), 0, call.key[1], risk_tolerance,
        call.input).result

\* C25 as stated: the missing key sectors are reported, each with one
\* suggested addition in the order of the key sectors, and the symbol and
\* the rationale of an addition depend on the sector alone, not on the
\* risk tolerance and not on the holdings.
C25_AdditionsFixedPerSector ==
    Recommended =>
        /\ MissingAndAdditions
        /\ \A risk_tolerance \in Tolerances :
              LET other == RecommendationsFor(risk_tolerance)
              IN  ~IsRaised(other) =>
                      other.suggested_additions = call.result.suggested_additions

\* C25: the missing key sectors are reported, each with one suggested
\* addition in the order of the key sectors; the rationale of an addition
\* is fixed per sector, and so is its symbol (VXUS, BND, VNQ) except for
\* US Stocks, whose symbol is VIG for the risk tolerance "low" and VTI for
\* every other; neither depends on the holdings.
C25_AdditionsFixedButUSStocks ==
    Recommended =>
        /\ MissingAndAdditions
        /\ \A i \in 1..Len(call.result.suggested_additions) :
              LET addition == call.result.suggested_additions[i]
              IN  /\ addition.symbol =
                        CASE addition.sector = "US Stocks" ->
                                 IF call.key[2] = "low" THEN "VIG" ELSE "VTI"
                          [] addition.sector = "International Stocks" -> "VXUS"
                          [] addition.sector = "US Bonds" -> "BND"
                          [] addition.sector = "Real Estate" -> "VNQ"
                  /\ addition.rationale =
                        CASE addition.sector = "US Stocks" ->
                                 "Provides broad US market exposure"
                          [] addition.sector = "International Stocks" ->
                                 "Adds international diversification"
                          [] addition.sector = "US Bonds" ->
                                 "Adds stability and income"
                          [] addition.sector = "Real Estate" ->
                                 "Provides exposure to real estate sector"

\* Recommendations for "low" on holdings without US stocks and without
\* real estate: VIG and VNQ are suggested, in this order.
C25_LowToleranceSuggestsVIG ==
    /\ Recommended
    /\ call.key = << <<"VGT", "BND">>, "low" >>
    /\ call.result.missing_sectors =
          <<"US Stocks", "International Stocks", "Real Estate">>
    /\ call.result.suggested_additions[1].symbol = "VIG"
    /\ call.result.suggested_additions[3].symbol = "VNQ"

----------------------------------------------------------------------------
(* Properties of the enhancement and of the request mapping (Spec).        *)

\* The step of the Enhancement stage of the run.
EnhancementStep == run.pc = "Enhancement" /\ run' # run

\* Every field of the strategy is a field of the enhanced strategy, with
\* the value it had.
KeepsFields(strategy, enhanced_strategy) ==
    /\ enhanced_strategy.t = "o"
    /\ \A i \in 1..Len(strategy.m) :
          /\ HasKey(enhanced_strategy.m, strategy.m[i].k)
          /\ DictGet(enhanced_strategy.m, strategy.m[i].k, Unset) = strategy.m[i].v

\* C26 as stated: whatever the strategy and the model's reply, the
\* Enhancement stage goes on to Presentation, and the strategy it passes
\* on has every field of the coordinator's strategy with its value.
C26_EnhancementOnlyAddsFields ==
    [][EnhancementStep =>
          /\ run'.pc = "Presentation"
          /\ KeepsFields(run.strategy, run'.enhanced_strategy)]_vars

\* The texts of C27 for the numbers of a request.
MappedRisk(request) ==
    CASE request.risk_tolerance = 1 -> "low"
      [] request.risk_tolerance = 2 -> "medium"
      [] request.risk_tolerance = 3 -> "high"

MappedHorizon(request) ==
    IF request.investment_horizon > 20 THEN "long-term"
    ELSE IF request.investment_horizon >= 10 THEN "medium-term"
    ELSE "short-term"

\* C27: in main_api.py the Goal has for risk_tolerance the text of the
\* request's number (1 low, 2 medium, 3 high) and for investment_horizon
\* the text of the request's years (short-term below 10, medium-term from
\* 10 to 20, long-term above 20), whatever the goal-extraction reply said,
\* and every later prompt that quotes the Goal or one of the two fields
\* quotes these values.
C27_GoalCarriesMappedRequest ==
    (run.variant = "main_api" /\ run.structured_goal # Unset) =>
        LET goal == run.structured_goal
            risk == JStr(MappedRisk(run.request))
            horizon == JStr(MappedHorizon(run.request))
        IN  /\ DictGet(goal.m, "risk_tolerance", Unset) = risk
            /\ DictGet(goal.m, "investment_horizon", Unset) = horizon
            /\ \A i \in DOMAIN run.calls :
                  LET c == run.calls[i]
                  IN  /\ c.role \in GoalCarriers => c.prompt.goal = json_dumps(goal)
                      /\ c.role = "MarketData" =>
                            c.prompt.goal =
                               Str(DictGet(goal.m, "goal_type", JStr("general investing")))
                               \o Str(horizon) \o Str(risk)
                      /\ c.role = "Enhancement" => c.prompt.goal = Str(risk)

\* A request with risk tolerance 2 and ten years, a goal-extraction reply
\* that said "high", and a coordinator called with "medium" and
\* "medium-term".
C27_ReplySaidHighRequestSaidTwo ==
    /\ run.variant = "main_api"
    /\ run.request = [risk_tolerance |-> 2, investment_horizon |-> 10]
    /\ run.extracted_goal # Unset
    /\ DictGet(run.extracted_goal.m, "risk_tolerance", Unset) = JStr("high")
    /\ DictGet(run.structured_goal.m, "risk_tolerance", Unset) = JStr("medium")
    /\ DictGet(run.structured_goal.m, "investment_horizon", Unset) = JStr("medium-term")
    /\ \E i \in DOMAIN run.calls : run.calls[i].role = "Coordination"

----------------------------------------------------------------------------
(* Properties of the cache on a failed fetch (ClientSpec).                 *)

\* What the try block of a fetch comes to on the provider's answer.
TryBlock(op, key, answer) ==
    CASE op = "get_stock_price" -> QuoteOutcome(key[2], answer)
      [] op = "get_performance_metrics" -> SeriesOutcome(key[2], answer)
      [] op = "get_etf_overview" -> OverviewOutcome(key[2], answer)
      [] op = "get_sector_performance" -> SectorOutcome(answer)

\* C28: a fetch that ends in an error leaves the client, and so the cache
\* with its timestamps, as it was; no entry of the cache is an error; a
\* fetch that finds no entry younger than the time to live and whose
\* request fails returns that error, also when an older entry is there;
\* and the fetch that follows a failed request for the same key makes a
\* request again.
C28_FailedFetchLeavesCacheAlone ==
    [][\A op \in DOMAIN FetchOps :
          CallStep(op) =>
             /\ IsError(call'.result) => client' = client
             /\ \A k \in DOMAIN client'.cache : ~IsError(client'.cache[k].data)
             /\ LET outcome == TryBlock(op, call'.key, call'.input)
                IN  /\ client.api_key
                    /\ ~Fresh(call'.key, FetchOps[op].ttl)
                    /\ IsError(outcome)
                    => /\ call'.result = outcome
                       /\ call'.sent = 1
                       /\ client' = client
             /\ /\ call.op = op
                /\ call.key = call'.key
                /\ IsError(call.result)
                /\ call.sent = 1
                => call'.sent = 1]_vars

\* A get_stock_price found an entry older than an hour, made its request
\* and failed: it returned the error and the old entry is still there.
C28_StaleQuoteKeptAfterFailure ==
    /\ client.api_key
    /\ call.op = "get_stock_price"
    /\ call.sent = 1
    /\ IsError(call.result)
    /\ call.key \in DOMAIN client.cache
    /\ call.at - client.cache[call.key].timestamp > QuoteTTL
    /\ ~IsError(client.cache[call.key].data)

----------------------------------------------------------------------------
(* Properties of the recommendations store (Spec).                         *)

\* The step on which generate_strategy gets the result of its run.
RunEnds == run.pc \notin {"idle", "done", "failed"} /\ run'.pc \in {"done", "failed"}

\* C29: in main_api.py, with one request handled after the other, a step
\* removes no recommendation and changes no stored goal or strategy; the
\* step that ends a run with a result adds that result under the run's
\* recommendation_id, which no stored recommendation has; every other
\* step, the end of a failed run included, leaves the stored ids as they
\* are.
C29_StoreHoldsTheSucceededRuns ==
    [][run.variant = "main_api" =>
          /\ \A id \in DOMAIN recommendations :
                /\ id \in DOMAIN recommendations'
                /\ recommendations'[id].structured_goal =
                      recommendations[id].structured_goal
                /\ recommendations'[id].strategy = recommendations[id].strategy
          /\ IF RunEnds /\ run'.pc = "done"
             THEN /\ run'.rec_id \notin DOMAIN recommendations
                  /\ DOMAIN recommendations' =
                        DOMAIN recommendations \cup {run'.rec_id}
                  /\ recommendations'[run'.rec_id].structured_goal =
                        run'.structured_goal
                  /\ recommendations'[run'.rec_id].strategy =
                        run'.enhanced_strategy
                  /\ recommendations'[run'.rec_id].presentation =
                        run'.presentation
             ELSE DOMAIN recommendations' = DOMAIN recommendations]_vars

\* Two runs that began in the same second are both stored, under ids
\* that differ.
C29_TwoStoredInTheSameSecond ==
    /\ run.variant = "main_api"
    /\ \E id1, id2 \in DOMAIN recommendations : id1 # id2 /\ id1.t = id2.t

\* A run has failed after another was stored, and the store has the one.
C29_FailedRunAfterStoredRun ==
    /\ run.variant = "main_api"
    /\ run.pc = "failed"
    /\ Cardinality(DOMAIN recommendations) = 1

====
